---------------------------- MODULE Spec2Model ----------------------------
(***************************************************************************)
(* A model of the streaming CSV reader of deno-csv (src/reader.ts, the     *)
(* CSVReader class at lines 1584-1995 and its view adapters at lines       *)
(* 1997-2413, with the scan helpers at lines 2415-2570).                   *)
(*                                                                         *)
(* Bytes are natural numbers 0..255, byte arrays are sequences of bytes    *)
(* (index 0 of the code is index 1 of the sequence), decoded cells are     *)
(* sequences of code points.                                               *)
(***************************************************************************)
EXTENDS Integers, Sequences, FiniteSets, TLC

Min(a, b) == IF a < b THEN a ELSE b

Max(a, b) == IF a > b THEN a ELSE b

\* a.subarray(from) / a.slice(from) with a 0-based start index
SubArray(a, from) == SubSeq(a, from + 1, Len(a))

\* a[i] with the 0-based index of the code; <<>> stands for undefined
At(a, i) == IF i >= 0 /\ i < Len(a) THEN <<a[i + 1]>> ELSE <<>>

(***************************************************************************)
(* Options (src/reader.ts:1543-1560) and the bytes of the UTF-8 BOM.       *)
(***************************************************************************)
utfBom == <<239, 187, 191>>

DefaultColumnSeparator == <<44>>

DefaultLineSeparator == <<10>>

DefaultQuote == <<34>>

DefaultReaderIteratorBufferSize == 1024

DefaultColumnBufferMinStepSize == 1024

DefaultInputBufferIndexLimit == 1024

DefaultColumnBufferReserve == 64

MAX_VALUE == 2147483647

(***************************************************************************)
(* TextDecoder.decode of a complete cell (UTF-8, fatal = false, ignoreBOM  *)
(* = false).  Implemented for the bytes the inputs of this model draw      *)
(* from: ASCII, continuation bytes 0x80..0xBF and the three-byte lead      *)
(* bytes 0xE1..0xEC, 0xEE, 0xEF; any other byte decodes to U+FFFD.         *)
(***************************************************************************)
IsContinuation(b) == b >= 128 /\ b <= 191

IsLead3(b) == (b >= 225 /\ b <= 236) \/ b = 238 \/ b = 239

RECURSIVE DecodeFrom(_, _)
DecodeFrom(b, i) ==
    IF i > Len(b) THEN <<>>
    ELSE IF b[i] < 128 THEN <<b[i]>> \o DecodeFrom(b, i + 1)
    ELSE IF IsLead3(b[i]) /\ i + 1 <= Len(b) /\ IsContinuation(b[i + 1])
         THEN IF i + 2 <= Len(b) /\ IsContinuation(b[i + 2])
              THEN <<((b[i] % 16) * 4096) + ((b[i + 1] % 64) * 64) + (b[i + 2] % 64)>>
                       \o DecodeFrom(b, i + 3)
              ELSE <<65533>> \o DecodeFrom(b, i + 2)
    ELSE <<65533>> \o DecodeFrom(b, i + 1)

\* decoder.decode(bytes): a leading U+FEFF is dropped (ignoreBOM is false)
Decode(b) ==
    LET s == DecodeFrom(b, 1)
    IN  IF Len(s) > 0 /\ s[1] = 65279 THEN Tail(s) ELSE s

(***************************************************************************)
(* utils.ts hasPrefixFrom: does a, from the 0-based offset, start with     *)
(* prefix.  A byte past the end of a is undefined and matches nothing.     *)
(***************************************************************************)
hasPrefixFrom(a, prefix, offset) ==
    \A i \in 1..Len(prefix) :
        offset + i <= Len(a) /\ a[offset + i] = prefix[i]

(***************************************************************************)
(* The inner matching loop shared by the three scan helpers: the pattern   *)
(* pat matches a at the 0-based index i when a[i] = pat[0] and the while   *)
(* loop counts matched up to pat.length.                                   *)
(***************************************************************************)
RECURSIVE MatchedCount(_, _, _, _)
MatchedCount(a, i, pat, matched) ==
    IF matched < Len(pat)
    THEN IF At(a, i + matched) /= <<pat[matched + 1]>>
         THEN matched
         ELSE MatchedCount(a, i, pat, matched + 1)
    ELSE matched

MatchesAt(a, i, pat) ==
    /\ At(a, i) = <<pat[1]>>
    /\ MatchedCount(a, i, pat, 1) = Len(pat)

(***************************************************************************)
(* findReadTillIndexQuoted (src/reader.ts:2415-2472).                      *)
(***************************************************************************)
RECURSIVE FindQuotedLoop(_, _, _, _, _, _, _)
FindQuotedLoop(a, limit, quote, lineSeparator, i, found, lastEnd) ==
    IF i >= Len(a)
    THEN [till |-> limit, lineSeparatorsFound |-> found,
          lastLineSeparatorEndIndex |-> lastEnd]
    ELSE IF i >= limit
    THEN [till |-> limit, lineSeparatorsFound |-> found,
          lastLineSeparatorEndIndex |-> lastEnd]
    ELSE IF MatchesAt(a, i, quote)
    THEN [till |-> i, lineSeparatorsFound |-> found,
          lastLineSeparatorEndIndex |-> lastEnd]
    ELSE IF MatchesAt(a, i, lineSeparator)
    THEN FindQuotedLoop(a, limit, quote, lineSeparator,
                        i + Len(lineSeparator), found + 1,
                        i + Len(lineSeparator))
    ELSE FindQuotedLoop(a, limit, quote, lineSeparator, i + 1, found, lastEnd)

findReadTillIndexQuoted(a, limit, quote, lineSeparator) ==
    FindQuotedLoop(a, limit, quote, lineSeparator, 0, 0, -1)

(***************************************************************************)
(* findReadTillIndex (src/reader.ts:2474-2544).                            *)
(***************************************************************************)
RECURSIVE FindLoop(_, _, _, _, _, _)
FindLoop(a, limit, lineSeparator, columnSeparator, quote, i) ==
    IF i >= Len(a) THEN [till |-> limit, type |-> "LIMIT"]
    ELSE IF i >= limit THEN [till |-> limit, type |-> "LIMIT"]
    ELSE IF MatchesAt(a, i, lineSeparator)
    THEN [till |-> i, type |-> "LINE_SEPARATOR"]
    ELSE IF MatchesAt(a, i, columnSeparator)
    THEN [till |-> i, type |-> "COLUMN_SEPARATOR"]
    ELSE IF MatchesAt(a, i, quote)
    THEN [till |-> i, type |-> "QUOTE"]
    ELSE FindLoop(a, limit, lineSeparator, columnSeparator, quote, i + 1)

\* findReadTillIndex without the test i >= limit: the whole array is scanned
findReadTillIndexUnlimited(a, limit, lineSeparator, columnSeparator, quote) ==
    FindLoop(a, Len(a), lineSeparator, columnSeparator, quote, 0)

findReadTillIndex(a, limit, lineSeparator, columnSeparator, quote) ==
    FindLoop(a, limit, lineSeparator, columnSeparator, quote, 0)

(***************************************************************************)
(* findReadTillLineSeparatorIndex (src/reader.ts:2546-2570); <<>> is null. *)
(***************************************************************************)
RECURSIVE FindLineLoop(_, _, _)
FindLineLoop(a, lineSeparator, i) ==
    IF i >= Len(a) THEN <<>>
    ELSE IF MatchesAt(a, i, lineSeparator) THEN <<i>>
    ELSE FindLineLoop(a, lineSeparator, i + 1)

findReadTillLineSeparatorIndex(a, lineSeparator) ==
    FindLineLoop(a, lineSeparator, 0)


(***************************************************************************)
(* bytes.repeat(quote, 2) and Math.max of the constructor.                 *)
(***************************************************************************)
repeat2(a) == a \o a

Max4(a, b, c, d) == Max(Max(a, b), Max(c, d))

\* options?.x || dflt for a numeric option: undefined (<<>>) and 0 are falsy
OrDefault(x, dflt) == IF x = <<>> \/ x = <<0>> THEN dflt ELSE x[1]

(***************************************************************************)
(* The callbacks the core delivers: onCell(text), onRowEnd(), onEnd() and  *)
(* onError(err).  An error carries its message kind, the received byte     *)
(* (when the message names one) and the position of getCurrentPos.         *)
(***************************************************************************)
CellEvent(text) == [type |-> "cell", value |-> text, line |-> 0, ch |-> 0]

RowEndEvent == [type |-> "rowEnd", value |-> <<>>, line |-> 0, ch |-> 0]

EndEvent == [type |-> "end", value |-> <<>>, line |-> 0, ch |-> 0]

ErrorEvent(kind, received, pos) ==
    [type |-> kind, value |-> received, line |-> pos.line, ch |-> pos.ch]

ExpectedQuote == "Expected quote, received EOF"

ExpectedSeparator == "Expected EOF, COLUMN_SEPARATOR, LINE_SEPARATOR"

UnexpectedQuote == "Unexpected quote in unquoted field"

Unexpected == "unexpected"

ErrorKinds == {ExpectedQuote, ExpectedSeparator, UnexpectedQuote, Unexpected}

IsError(e) == e.type \in ErrorKinds

(***************************************************************************)
(* new CSVReader(reader, options) (src/reader.ts:1621-1682).  o is the     *)
(* options object merged over defaultCSVReaderOptions.                     *)
(***************************************************************************)
NewCSVReader(o) ==
    LET quote == o.quote
        columnSeparator == o.columnSeparator
        lineSeparator == o.lineSeparator
        doubleQuote == repeat2(quote)
        minPossibleBufferReserve ==
            Max4(Len(columnSeparator), Len(lineSeparator), Len(doubleQuote), 1)
        columnBufferStepSize ==
            Max(o._columnBufferMinStepSize, minPossibleBufferReserve)
    IN  [ fromLine |-> OrDefault(o.fromLine, 0),
          toLine |-> OrDefault(o.toLine, MAX_VALUE),
          inputBufferIndexLimit |-> o._inputBufferIndexLimit,
          stats |-> [reads |-> 0, inputBufferShrinks |-> 0,
                     columnBufferExpands |-> 0],
          quote |-> quote,
          columnSeparator |-> columnSeparator,
          lineSeparator |-> lineSeparator,
          doubleQuote |-> doubleQuote,
          minPossibleBufferReserve |-> minPossibleBufferReserve,
          columnBufferStepSize |-> columnBufferStepSize,
          columnBufferReserve |->
              Max(o._columnBufferReserve, minPossibleBufferReserve),
          inputBuffer |-> <<>>,
          inputBufferIndex |-> 0,
          columnBuffer |-> <<>>,
          columnBufferLength |-> columnBufferStepSize,
          columnBufferIndex |-> 0,
          readerEmpty |-> FALSE,
          emptyLine |-> TRUE,
          inQuote |-> FALSE,
          inColumn |-> FALSE,
          inputBufferUnprocessed |-> 0,
          paused |-> TRUE,
          currentPos |-> 0,
          linesProcessed |-> 0,
          lastLineStartPos |-> 0 ]

(***************************************************************************)
(* The private methods of CSVReader (src/reader.ts:1695-1781).  The column *)
(* buffer is kept as its written prefix columnBuffer (the bytes below      *)
(* columnBufferIndex) and its allocated length columnBufferLength.         *)
(***************************************************************************)
\* processColumn: the decoded cell handed to onCell
processColumnCell(r) == Decode(SubSeq(r.columnBuffer, 1, r.columnBufferIndex))

\* processColumn: the reader after the column buffer index is reset
processColumn(r) == [r EXCEPT !.columnBufferIndex = 0, !.columnBuffer = <<>>]

hasNext(r, chars) == hasPrefixFrom(r.inputBuffer, chars, r.inputBufferIndex)

skip(r, length) ==
    [r EXCEPT !.inputBufferIndex = @ + length,
              !.inputBufferUnprocessed = @ - length,
              !.currentPos = @ + length]

\* shrinkInputBuffer that leaves the read index where it was
shrinkInputBufferKeepsIndex(r) ==
    LET sliced == SubArray(r.inputBuffer, r.inputBufferIndex)
    IN  [r EXCEPT !.stats.inputBufferShrinks = @ + 1,
                  !.inputBuffer = sliced,
                  !.inputBufferUnprocessed = Len(sliced)]

\* shrinkInputBuffer that keeps the consumed prefix: the index goes back to
\* the start of a buffer from which nothing was dropped
shrinkInputBufferFromStart(r) ==
    [r EXCEPT !.stats.inputBufferShrinks = @ + 1,
              !.inputBufferIndex = 0,
              !.inputBufferUnprocessed = Len(r.inputBuffer)]

shrinkInputBuffer(r) ==
    LET sliced == SubArray(r.inputBuffer, r.inputBufferIndex)
    IN  [r EXCEPT !.stats.inputBufferShrinks = @ + 1,
                  !.inputBuffer = sliced,
                  !.inputBufferIndex = 0,
                  !.inputBufferUnprocessed = Len(sliced)]

readChars(r, n) ==
    [r EXCEPT !.columnBuffer =
                  @ \o SubSeq(r.inputBuffer, r.inputBufferIndex + 1,
                              r.inputBufferIndex + n),
              !.columnBufferIndex = @ + n,
              !.inputBufferIndex = @ + n,
              !.inputBufferUnprocessed = @ - n,
              !.currentPos = @ + n]

\* columnBuffer.set(quote, columnBufferIndex) of the double quote branch
appendQuote(r) ==
    [r EXCEPT !.columnBuffer = @ \o r.quote,
              !.columnBufferIndex = @ + Len(r.quote)]

expandColumnBuffer(r) ==
    [r EXCEPT !.stats.columnBufferExpands = @ + 1,
              !.columnBufferLength = @ + r.columnBufferStepSize]

countLines(r, newLines, lastLineStartPos) ==
    [r EXCEPT !.linesProcessed = @ + newLines,
              !.lastLineStartPos = lastLineStartPos]

countLine(r) == countLines(r, 1, r.currentPos)

getCurrentPos(r) ==
    [line |-> r.linesProcessed + 1,
     ch |-> r.currentPos - r.lastLineStartPos + 1]

(***************************************************************************)
(* readMoreData (src/reader.ts:1740-1750) in its two halves: the request   *)
(* made before the await and the assignment made when the chunk iterator   *)
(* answers.  A chunk is <<bytes>>, done is <<>>.                           *)
(***************************************************************************)
\* readMoreData without stats.reads++
readMoreDataRequestUncounted(r) == r

readMoreDataRequest(r) == [r EXCEPT !.stats.reads = @ + 1]

readMoreDataResult(r, chunk) ==
    IF chunk = <<>>
    THEN [r EXCEPT !.readerEmpty = TRUE]
    ELSE [r EXCEPT !.inputBuffer = @ \o chunk[1],
                   !.inputBufferUnprocessed = @ + Len(chunk[1])]

(***************************************************************************)
(* The byte source: MyReader of src/reader_test.ts:11-42 behind            *)
(* iterateReader(reader, {bufSize}).  Each chunk is the next               *)
(* min(bufSize, unread) bytes; an exhausted reader answers done.           *)
(***************************************************************************)
NewSource(content, bufSize) == [buf |-> content, index |-> 0, bufSize |-> bufSize]

SourceUnread(s) == Len(s.buf) - s.index

SourceChunk(s) ==
    IF SourceUnread(s) <= 0 THEN <<>>
    ELSE <<SubSeq(s.buf, s.index + 1, s.index + Min(s.bufSize, SourceUnread(s)))>>

SourceAfterRead(s) ==
    IF SourceUnread(s) <= 0 THEN s
    ELSE [s EXCEPT !.index = @ + Min(s.bufSize, SourceUnread(s))]

(***************************************************************************)
(* parseCycle (src/reader.ts:1783-1994).  Branch names the first branch of *)
(* the loop body whose condition holds, in the order of the code.          *)
(***************************************************************************)
Branch(r) ==
    IF r.paused THEN "paused"
    ELSE IF ~r.readerEmpty /\ r.inputBufferUnprocessed < r.minPossibleBufferReserve
    THEN "readMoreData"
    ELSE IF r.inputBufferIndex >= r.inputBufferIndexLimit
    THEN "shrinkInputBuffer"
    ELSE IF r.columnBufferLength - r.columnBufferIndex < r.columnBufferReserve
    THEN "expandColumnBuffer"
    ELSE IF ~r.inColumn /\ r.linesProcessed < r.fromLine THEN "skipLine"
    ELSE IF ~r.inColumn /\ r.linesProcessed >= r.toLine THEN "toLine"
    ELSE IF ~r.inColumn /\ r.currentPos = 0 /\ hasNext(r, utfBom) THEN "skipBom"
    ELSE IF ~r.inColumn /\ r.inputBufferUnprocessed = 0 THEN "eof"
    ELSE IF ~r.inColumn /\ hasNext(r, r.lineSeparator) THEN "lineSeparator"
    ELSE IF ~r.inColumn /\ hasNext(r, r.columnSeparator) THEN "columnSeparator"
    ELSE IF ~r.inColumn THEN "startColumn"
    ELSE IF r.inColumn /\ r.inQuote /\ hasNext(r, r.doubleQuote) THEN "doubleQuote"
    ELSE IF r.inColumn /\ r.inQuote /\ hasNext(r, r.quote) THEN "endQuotedColumn"
    ELSE IF /\ r.inColumn
            /\ ~r.inQuote
            /\ \/ r.inputBufferUnprocessed = 0
               \/ hasNext(r, r.lineSeparator)
               \/ hasNext(r, r.columnSeparator)
    THEN "endUnquotedColumn"
    ELSE IF r.inColumn /\ r.inputBufferUnprocessed > 0 THEN "readColumn"
    ELSE IF r.inQuote /\ r.inputBufferUnprocessed = 0 THEN "expectedQuote"
    ELSE "unexpected"

(***************************************************************************)
(* One pass through the loop body per branch.  Each yields the reader      *)
(* after the pass (rd), the callbacks made during it in order (ev) and     *)
(* whether the pass ends in return (ret) rather than continue.             *)
(***************************************************************************)
Pass(rd, ev, ret) == [rd |-> rd, ev |-> ev, ret |-> ret]

\* skip line if it didn't reach fromLine (1814-1826)
SkipLinePass(r) ==
    LET slice == SubArray(r.inputBuffer, r.inputBufferIndex)
        index == findReadTillLineSeparatorIndex(slice, r.lineSeparator)
    IN  IF index = <<>>
        THEN Pass(skip(r, Len(slice)), <<>>, FALSE)
        ELSE Pass([countLine(skip(r, index[1] + Len(r.lineSeparator)))
                      EXCEPT !.emptyLine = TRUE], <<>>, FALSE)

\* stop reading if toLine is reached (1828-1834)
ToLinePass(r) == Pass(r, <<EndEvent>>, TRUE)

\* skip UTF BOM (1836-1840)
SkipBomPass(r) == Pass(skip(r, Len(utfBom)), <<>>, FALSE)

\* processColumn(); processRow() of a line that is not empty
RowCallbacks(r) ==
    IF ~r.emptyLine THEN <<CellEvent(processColumnCell(r)), RowEndEvent>> ELSE <<>>

AfterRowCallbacks(r) == IF ~r.emptyLine THEN processColumn(r) ELSE r

\* end of input outside a column (1842-1850)
EofPass(r) == Pass(AfterRowCallbacks(r), RowCallbacks(r) \o <<EndEvent>>, TRUE)

\* LineSeparatorPass that takes a line for blank when its last cell is
\* empty: the cells already delivered stay without their row end
LineSeparatorPassSkipsEmptyCell(r) ==
    LET blank == r.emptyLine \/ r.columnBufferIndex = 0
    IN  Pass([countLine(skip(IF blank THEN r ELSE processColumn(r),
                             Len(r.lineSeparator)))
                 EXCEPT !.emptyLine = TRUE],
             IF blank THEN <<>>
             ELSE <<CellEvent(processColumnCell(r)), RowEndEvent>>, FALSE)

\* LineSeparatorPass without emptyLine = true: the line after a row is
\* never blank
LineSeparatorPassKeepsLine(r) ==
    Pass(countLine(skip(AfterRowCallbacks(r), Len(r.lineSeparator))),
         RowCallbacks(r), FALSE)

\* line separator outside a column (1852-1862)
LineSeparatorPass(r) ==
    Pass([countLine(skip(AfterRowCallbacks(r), Len(r.lineSeparator)))
             EXCEPT !.emptyLine = TRUE],
         RowCallbacks(r), FALSE)

\* ColumnSeparatorPass without emptyLine = false: a line of empty cells
\* stays a blank line
ColumnSeparatorPassKeepsEmptyLine(r) ==
    Pass(skip(processColumn(r), Len(r.columnSeparator)),
         <<CellEvent(processColumnCell(r))>>, FALSE)

\* column separator outside a column (1864-1870)
ColumnSeparatorPass(r) ==
    Pass(skip(processColumn([r EXCEPT !.emptyLine = FALSE]),
              Len(r.columnSeparator)),
         <<CellEvent(processColumnCell(r))>>, FALSE)

\* start of a column, quoted or not (1872-1883)
StartColumnPass(r) ==
    LET started == [r EXCEPT !.inColumn = TRUE, !.emptyLine = FALSE]
    IN  IF hasNext(r, r.quote)
        THEN Pass(skip([started EXCEPT !.inQuote = TRUE], Len(r.quote)),
                  <<>>, FALSE)
        ELSE Pass(started, <<>>, FALSE)

\* DoubleQuotePass that keeps both quotes of the pair in the cell
DoubleQuotePassKeepsBoth(r) ==
    Pass(skip(appendQuote(appendQuote(r)), Len(r.doubleQuote)), <<>>, FALSE)

\* double quote inside a quoted column (1885-1891)
DoubleQuotePass(r) == Pass(skip(appendQuote(r), Len(r.doubleQuote)), <<>>, FALSE)

\* the received character of the error after a closing quote (1903-1904)
ReceivedChar(r) == At(r.inputBuffer, r.inputBufferIndex)

\* end of a quoted column (1893-1915)
EndQuotedColumnPass(r) ==
    LET closed == skip([r EXCEPT !.inQuote = FALSE, !.inColumn = FALSE],
                       Len(r.quote))
    IN  IF /\ closed.inputBufferUnprocessed > 0
           /\ ~hasNext(closed, closed.lineSeparator)
           /\ ~hasNext(closed, closed.columnSeparator)
        THEN Pass(closed,
                  <<ErrorEvent(ExpectedSeparator, ReceivedChar(closed),
                               getCurrentPos(closed))>>,
                  TRUE)
        ELSE Pass(closed, <<>>, FALSE)

\* end of an unquoted column (1917-1927)
EndUnquotedColumnPass(r) == Pass([r EXCEPT !.inColumn = FALSE], <<>>, FALSE)

\* the limit of the bulk read without the free bytes of the column buffer
ReadLimitOfInput(r) == r.inputBufferUnprocessed - r.minPossibleBufferReserve

\* the limit of the bulk read (1930-1934)
ReadLimit(r) ==
    Min(r.inputBufferUnprocessed - r.minPossibleBufferReserve,
        r.columnBufferLength - r.columnBufferIndex)

\* readChars(readTillIndex) when readTillIndex > 0 (1974-1977)
ReadTill(r, readTillIndex) ==
    IF readTillIndex > 0 THEN readChars(r, readTillIndex) ELSE r

\* bulk read of the column body (1929-1982)
ReadColumnPass(r) ==
    LET slice == SubArray(r.inputBuffer, r.inputBufferIndex)
        limit == ReadLimit(r)
    IN  IF limit > 1
        THEN IF r.inQuote
             THEN LET f == findReadTillIndexQuoted(slice, limit, r.quote,
                                                   r.lineSeparator)
                      read == ReadTill(r, f.till)
                  IN  IF f.lineSeparatorsFound > 0
                      THEN Pass(countLines(read, f.lineSeparatorsFound,
                                           r.currentPos + f.lastLineSeparatorEndIndex),
                                <<>>, FALSE)
                      ELSE Pass(read, <<>>, FALSE)
             ELSE LET f == findReadTillIndex(slice, limit, r.lineSeparator,
                                             r.columnSeparator, r.quote)
                  IN  IF f.till = 0 /\ f.type = "QUOTE"
                      THEN Pass(r, <<ErrorEvent(UnexpectedQuote, <<>>,
                                                getCurrentPos(r))>>, TRUE)
                      ELSE Pass(ReadTill(r, f.till), <<>>, FALSE)
        ELSE Pass(ReadTill(r, 1), <<>>, FALSE)

\* FailPass with the end of input inside a quoted column taken for the end
\* of the input: the unfinished cell and its row are delivered, then onEnd
FailPassAsEof(r) ==
    Pass(processColumn(r),
         <<CellEvent(processColumnCell(r)), RowEndEvent, EndEvent>>, TRUE)

\* FailPass without the rule for the end of input inside a quoted column
FailPassCatchAll(r) ==
    Pass(r, <<ErrorEvent(Unexpected, <<>>, getCurrentPos(r))>>, TRUE)

\* end of input inside a quoted column (1984-1989), else the catch-all (1991-1992)
FailPass(r) ==
    IF r.inQuote /\ r.inputBufferUnprocessed = 0
    THEN Pass(r, <<ErrorEvent(ExpectedQuote, <<>>, getCurrentPos(r))>>, TRUE)
    ELSE Pass(r, <<ErrorEvent(Unexpected, <<>>, getCurrentPos(r))>>, TRUE)

(***************************************************************************)
(* The view adapters CSVStreamReader (src/reader.ts:1997-2088) and         *)
(* CSVRowReader (2110-2199).  kind is "stream" or "rows"; pending says     *)
(* that nextPromiseResolve / nextPromiseReject are set, and shared is the  *)
(* number of further next() calls that returned the promise they belong    *)
(* to.  What next() settles with is a result: a value, the newLine symbol, *)
(* done or an error.                                                       *)
(***************************************************************************)
ValueResult(v) == [tag |-> "value", value |-> v, error |-> EndEvent]

NewLineResult == [tag |-> "newLine", value |-> <<>>, error |-> EndEvent]

DoneResult == [tag |-> "done", value |-> <<>>, error |-> EndEvent]

ErrorResult(e) == [tag |-> "error", value |-> <<>>, error |-> e]

NewView(kind) ==
    [kind |-> kind, done |-> FALSE, row |-> <<>>, buffer |-> <<>>,
     pending |-> FALSE, shared |-> 0]

\* process that keeps the result for a later next() although one is waiting
processAlwaysBuffers(st, result) ==
    [view |-> [st.view EXCEPT !.buffer = Append(@, result)],
     got |-> st.got,
     paused |-> TRUE]

\* process that does not call reader.pause()
processWithoutPause(st, result) ==
    IF st.view.pending
    THEN [view |-> [st.view EXCEPT !.pending = FALSE, !.shared = 0],
          got |-> st.got \o [i \in 1..(1 + st.view.shared) |-> result],
          paused |-> st.paused]
    ELSE [view |-> [st.view EXCEPT !.buffer = Append(@, result)],
          got |-> st.got,
          paused |-> st.paused]

\* st is the adapter (view), what the consumer has received (got) and
\* whether reader.pause() has been called (paused); the promise settles
\* for every next() call that returned it
process(st, result) ==
    IF st.view.pending
    THEN [view |-> [st.view EXCEPT !.pending = FALSE, !.shared = 0],
          got |-> st.got \o [i \in 1..(1 + st.view.shared) |-> result],
          paused |-> TRUE]
    ELSE [view |-> [st.view EXCEPT !.buffer = Append(@, result)],
          got |-> st.got,
          paused |-> TRUE]

onCell(st, text) ==
    IF st.view.kind = "rows"
    THEN [st EXCEPT !.view.row = Append(@, text)]
    ELSE process(st, ValueResult(text))

onRowEnd(st) ==
    IF st.view.kind = "rows"
    THEN process([st EXCEPT !.view.row = <<>>], ValueResult(st.view.row))
    ELSE process(st, NewLineResult)

\* onEnd that does not record that the reader has ended
onEndForgetsDone(st) == process(st, DoneResult)

onEnd(st) == process([st EXCEPT !.view.done = TRUE], DoneResult)

onError(st, e) == process(st, ErrorResult(e))

Callback(st, e) ==
    IF e.type = "cell" THEN onCell(st, e.value)
    ELSE IF e.type = "rowEnd" THEN onRowEnd(st)
    ELSE IF e.type = "end" THEN onEnd(st)
    ELSE onError(st, e)

RECURSIVE Callbacks(_, _)
Callbacks(st, ev) ==
    IF ev = <<>> THEN st ELSE Callbacks(Callback(st, Head(ev)), Tail(ev))

(***************************************************************************)
(* State.                                                                  *)
(*   source   the byte source (MyReader)                                   *)
(*   inflight the answers of the chunk iterator not yet received by the    *)
(*            parseCycle awaiting them in readMoreData                     *)
(*   reader   the CSVReader                                                *)
(*   active   a parseCycle call is running (between two awaits)            *)
(*   view     the adapter                                                  *)
(*   got      the results the consumer's next() calls settled with         *)
(*   events   the callbacks the reader has made so far                     *)
(*   run      the content, the options and the adapter the run was made    *)
(*            with (never changed)                                         *)
(***************************************************************************)
VARIABLES source, inflight, reader, active, view, got, events, run

vars == <<source, inflight, reader, active, view, got, events, run>>

\* a run: the content of the source, the options and the adapter
Start(c) ==
    /\ source = NewSource(c.content, c.options._readerIteratorBufferSize)
    /\ inflight = <<>>
    /\ reader = NewCSVReader(c.options)
    /\ active = FALSE
    /\ view = NewView(c.kind)
    /\ got = <<>>
    /\ events = <<>>
    /\ run = c

(***************************************************************************)
(* The passes of parseCycle as actions.                                    *)
(***************************************************************************)
LoopPass(branch, p) ==
    /\ active
    /\ Branch(reader) = branch
    /\ LET st == Callbacks([view |-> view, got |-> got, paused |-> FALSE], p.ev)
       IN  /\ reader' = [p.rd EXCEPT !.paused = st.paused]
           /\ view' = st.view
           /\ got' = st.got
    /\ events' = events \o p.ev
    /\ active' = ~p.ret
    /\ UNCHANGED <<source, inflight, run>>

\* if (this.paused) return (1785-1787)
Paused ==
    /\ active
    /\ Branch(reader) = "paused"
    /\ active' = FALSE
    /\ UNCHANGED <<source, inflight, reader, view, got, events, run>>

\* lacks of data: readMoreData() up to its await (1789-1797, 1740-1743)
ReadMoreData ==
    /\ active
    /\ Branch(reader) = "readMoreData"
    /\ reader' = readMoreDataRequest(reader)
    /\ inflight' = Append(inflight, SourceChunk(source))
    /\ source' = SourceAfterRead(source)
    /\ active' = FALSE
    /\ UNCHANGED <<view, got, events, run>>

\* the chunk iterator answers: readMoreData() after its await, then continue
ChunkArrives ==
    /\ ~active
    /\ inflight /= <<>>
    /\ reader' = readMoreDataResult(reader, Head(inflight))
    /\ inflight' = Tail(inflight)
    /\ active' = TRUE
    /\ UNCHANGED <<source, view, got, events, run>>

ShrinkInputBuffer ==
    LoopPass("shrinkInputBuffer", Pass(shrinkInputBuffer(reader), <<>>, FALSE))

ExpandColumnBuffer ==
    LoopPass("expandColumnBuffer", Pass(expandColumnBuffer(reader), <<>>, FALSE))

SkipLine == LoopPass("skipLine", SkipLinePass(reader))

ToLine == LoopPass("toLine", ToLinePass(reader))

SkipBom == LoopPass("skipBom", SkipBomPass(reader))

Eof == LoopPass("eof", EofPass(reader))

LineSeparator == LoopPass("lineSeparator", LineSeparatorPass(reader))

ColumnSeparator == LoopPass("columnSeparator", ColumnSeparatorPass(reader))

StartColumn == LoopPass("startColumn", StartColumnPass(reader))

DoubleQuote == LoopPass("doubleQuote", DoubleQuotePass(reader))

EndQuotedColumn == LoopPass("endQuotedColumn", EndQuotedColumnPass(reader))

EndUnquotedColumn == LoopPass("endUnquotedColumn", EndUnquotedColumnPass(reader))

ReadColumn == LoopPass("readColumn", ReadColumnPass(reader))

Fail ==
    /\ Branch(reader) \in {"expectedQuote", "unexpected"}
    /\ LoopPass(Branch(reader), FailPass(reader))

(***************************************************************************)
(* reader.read() (1684-1689): [rd, started], started when parseCycle is    *)
(* called.                                                                 *)
(***************************************************************************)
read(r) ==
    IF r.paused
    THEN [rd |-> [r EXCEPT !.paused = FALSE], started |-> TRUE]
    ELSE [rd |-> r, started |-> FALSE]

(***************************************************************************)
(* The consumer: one next() at a time, each awaited before the following   *)
(* one, as for await does, and up to MaxExtraNext more calls after next()  *)
(* has answered done or rejected.                                          *)
(***************************************************************************)
MaxExtraNext == 1

IsTerminal(res) == res.tag \in {"done", "error"}

Terminals(g) == Cardinality({i \in 1..Len(g) : IsTerminal(g[i])})

\* next() (2054-2083, 2165-2194) called with no promise outstanding
next ==
    /\ ~active
    /\ ~view.pending
    /\ Terminals(got) <= MaxExtraNext
    /\ IF view.done /\ view.buffer = <<>>
       THEN /\ got' = Append(got, DoneResult)
            /\ UNCHANGED <<reader, active, view>>
       ELSE IF view.buffer /= <<>>
       THEN /\ got' = Append(got, Head(view.buffer))
            /\ view' = [view EXCEPT !.buffer = Tail(@)]
            /\ UNCHANGED <<reader, active>>
       ELSE /\ view' = [view EXCEPT !.pending = TRUE]
            /\ reader' = read(reader).rd
            /\ active' = read(reader).started
            /\ UNCHANGED got
    /\ UNCHANGED <<source, inflight, events, run>>

(***************************************************************************)
(* A whole run of a CSVReader used directly (read() called once, the       *)
(* callbacks never pause it): the passes of parseCycle applied until one   *)
(* returns.  hang says that a pass continued without changing anything,    *)
(* so that the loop never ends.                                            *)
(***************************************************************************)
BranchPass(r) ==
    LET b == Branch(r)
    IN  CASE b = "shrinkInputBuffer" -> Pass(shrinkInputBuffer(r), <<>>, FALSE)
          [] b = "expandColumnBuffer" -> Pass(expandColumnBuffer(r), <<>>, FALSE)
          [] b = "skipLine" -> SkipLinePass(r)
          [] b = "toLine" -> ToLinePass(r)
          [] b = "skipBom" -> SkipBomPass(r)
          [] b = "eof" -> EofPass(r)
          [] b = "lineSeparator" -> LineSeparatorPass(r)
          [] b = "columnSeparator" -> ColumnSeparatorPass(r)
          [] b = "startColumn" -> StartColumnPass(r)
          [] b = "doubleQuote" -> DoubleQuotePass(r)
          [] b = "endQuotedColumn" -> EndQuotedColumnPass(r)
          [] b = "endUnquotedColumn" -> EndUnquotedColumnPass(r)
          [] b = "readColumn" -> ReadColumnPass(r)
          [] OTHER -> FailPass(r)

RECURSIVE RunLoop(_, _, _)
RunLoop(r, s, ev) ==
    IF Branch(r) = "readMoreData"
    THEN RunLoop(readMoreDataResult(readMoreDataRequest(r), SourceChunk(s)),
                 SourceAfterRead(s), ev)
    ELSE LET p == BranchPass(r)
         IN  IF p.ret THEN [rd |-> p.rd, ev |-> ev \o p.ev, hang |-> FALSE]
             ELSE IF p.rd = r /\ p.ev = <<>>
             THEN [rd |-> r, ev |-> ev, hang |-> TRUE]
             ELSE RunLoop(p.rd, s, ev \o p.ev)

Run(content, options) ==
    RunLoop(read(NewCSVReader(options)).rd,
            NewSource(content, options._readerIteratorBufferSize), <<>>)

(***************************************************************************)
(* The rows a sequence of callbacks amounts to: the cells before each      *)
(* onRowEnd (the row of CSVRowReader.onCell / onRowEnd).                   *)
(***************************************************************************)
RECURSIVE RowsFrom(_, _, _)
RowsFrom(ev, row, rows) ==
    IF ev = <<>> THEN rows
    ELSE IF Head(ev).type = "cell"
    THEN RowsFrom(Tail(ev), Append(row, Head(ev).value), rows)
    ELSE IF Head(ev).type = "rowEnd"
    THEN RowsFrom(Tail(ev), <<>>, Append(rows, row))
    ELSE RowsFrom(Tail(ev), row, rows)

RowsOf(ev) == RowsFrom(ev, <<>>, <<>>)

\* the options of a run: the defaults (src/reader.ts:1543-1560) unless given
DefaultOptions ==
    [ columnSeparator |-> DefaultColumnSeparator,
      lineSeparator |-> DefaultLineSeparator,
      quote |-> DefaultQuote,
      fromLine |-> <<>>,
      toLine |-> <<>>,
      _readerIteratorBufferSize |-> DefaultReaderIteratorBufferSize,
      _columnBufferMinStepSize |-> DefaultColumnBufferMinStepSize,
      _inputBufferIndexLimit |-> DefaultInputBufferIndexLimit,
      _columnBufferReserve |-> DefaultColumnBufferReserve ]

(***************************************************************************)
(* The runs checked.  Contents are all byte sequences up to MaxLen over a  *)
(* small alphabet holding the bytes of the delimiters; the hidden options  *)
(* are the defaults, or all four equal to k, or the chunk size alone equal *)
(* to k, for k up to MaxHidden.                                            *)
(***************************************************************************)
MaxLen == 4

MaxHidden == 2

SeqsUpTo(S, n) == UNION {[1..k -> S] : k \in 0..n}

WithHidden(o, k) ==
    [o EXCEPT !._readerIteratorBufferSize = k,
              !._columnBufferMinStepSize = k,
              !._inputBufferIndexLimit = k,
              !._columnBufferReserve = k]

HiddenVariants(o) ==
    {o} \cup {WithHidden(o, k) : k \in 1..MaxHidden}
        \cup {[o EXCEPT !._readerIteratorBufferSize = k] : k \in 1..MaxHidden}

\* lineSeparator: "\r\n"
CrLfOptions == [DefaultOptions EXCEPT !.lineSeparator = <<13, 10>>]

Kinds == {"stream", "rows"}

Cases ==
    {[content |-> c, options |-> o, kind |-> k] :
        c \in SeqsUpTo({97, 44, 10, 34}, MaxLen),
        o \in HiddenVariants(DefaultOptions), k \in Kinds}
    \cup
    {[content |-> c, options |-> o, kind |-> k] :
        c \in SeqsUpTo({97, 13, 10, 34}, MaxLen),
        o \in HiddenVariants(CrLfOptions), k \in Kinds}

Init == \E c \in Cases : Start(c)

Next ==
    \/ next
    \/ Paused
    \/ ReadMoreData
    \/ ChunkArrives
    \/ ShrinkInputBuffer
    \/ ExpandColumnBuffer
    \/ Eof
    \/ LineSeparator
    \/ ColumnSeparator
    \/ StartColumn
    \/ DoubleQuote
    \/ EndQuotedColumn
    \/ EndUnquotedColumn
    \/ ReadColumn
    \/ Fail

Spec == Init /\ [][Next]_vars

(***************************************************************************)
(* Vocabulary of the properties.                                           *)
(***************************************************************************)
Last(q) == q[Len(q)]

IsPrefixOf(p, q) == Len(p) <= Len(q) /\ SubSeq(q, 1, Len(p)) = p

\* pat occurs in a
Occurs(pat, a) == \E i \in 0..(Len(a) - Len(pat)) : hasPrefixFrom(a, pat, i)

\* the index in got of the first done or error, 0 when there is none yet
FirstTerminal(g) ==
    IF \E i \in 1..Len(g) : IsTerminal(g[i])
    THEN CHOOSE i \in 1..Len(g) :
             IsTerminal(g[i]) /\ \A j \in 1..(i - 1) : ~IsTerminal(g[j])
    ELSE 0

\* the consumer's for await loop has ended (normally or by a rejection)
Finished == FirstTerminal(got) > 0

FinishedDone == Finished /\ got[FirstTerminal(got)].tag = "done"

\* the rows a token sequence of readCSVStream amounts to
RECURSIVE TokenRows(_, _, _)
TokenRows(g, row, rows) ==
    IF g = <<>> THEN rows
    ELSE IF Head(g).tag = "newLine" THEN TokenRows(Tail(g), <<>>, Append(rows, row))
    ELSE TokenRows(Tail(g), Append(row, Head(g).value), rows)

\* the rows the consumer's for await loop has collected
RowsGot ==
    LET n == IF Finished THEN FirstTerminal(got) - 1 ELSE Len(got)
        g == SubSeq(got, 1, n)
    IN  IF view.kind = "rows" THEN [i \in 1..n |-> g[i].value]
        ELSE TokenRows(g, <<>>, <<>>)

\* the options of this run, as far as the reader records them
RunOptions ==
    [ columnSeparator |-> reader.columnSeparator,
      lineSeparator |-> reader.lineSeparator,
      quote |-> reader.quote,
      fromLine |-> <<reader.fromLine>>,
      toLine |-> <<reader.toLine>>,
      _readerIteratorBufferSize |-> source.bufSize,
      _columnBufferMinStepSize |-> reader.columnBufferStepSize,
      _inputBufferIndexLimit |-> reader.inputBufferIndexLimit,
      _columnBufferReserve |-> reader.columnBufferReserve ]

\* the same options with the four hidden ones at their defaults
WithDefaultHidden(o) ==
    [o EXCEPT !._readerIteratorBufferSize = DefaultReaderIteratorBufferSize,
              !._columnBufferMinStepSize = DefaultColumnBufferMinStepSize,
              !._inputBufferIndexLimit = DefaultInputBufferIndexLimit,
              !._columnBufferReserve = DefaultColumnBufferReserve]

HasError(ev) == \E i \in 1..Len(ev) : IsError(ev[i])

\* the callbacks made by the step
NewEvents == SubSeq(events', Len(events) + 1, Len(events'))

\* the line separators that lie wholly before the 0-based offset pos of a,
\* counted left to right without overlap: [n, end of the last one]
RECURSIVE LineSeparatorsBefore(_, _, _, _, _, _)
LineSeparatorsBefore(a, pos, sep, i, n, lastEnd) ==
    IF i + Len(sep) > pos THEN [n |-> n, lastEnd |-> lastEnd]
    ELSE IF hasPrefixFrom(a, sep, i)
    THEN LineSeparatorsBefore(a, pos, sep, i + Len(sep), n + 1, i + Len(sep))
    ELSE LineSeparatorsBefore(a, pos, sep, i + 1, n, lastEnd)

(***************************************************************************)
(* C1.  For an input the default-configured reader parses without error,   *)
(* a run with any hidden options yields the rows of the default run.       *)
(***************************************************************************)
C1_SameRowsAsDefault ==
    Finished =>
        LET ref == Run(source.buf, WithDefaultHidden(RunOptions))
        IN  ~HasError(ref.ev) /\ ~ref.hang =>
                FinishedDone /\ RowsGot = RowsOf(ref.ev)

(***************************************************************************)
(* C6.  Errors are terminal: once a next() has rejected, every later       *)
(* next() answers done or rejects; no cell, row or NEW_LINE follows.       *)
(***************************************************************************)
C6_ErrorsTerminal ==
    \A i \in 1..Len(got) : \A j \in (i + 1)..Len(got) :
        got[i].tag = "error" => IsTerminal(got[j])

(***************************************************************************)
(* C7.  A quote inside an unquoted field is never accepted into the        *)
(* field: the bytes gathered for an unquoted field never hold the quote    *)
(* (the parser fails with "Unexpected quote in unquoted field" instead).   *)
(***************************************************************************)
C7_NoQuoteInUnquoted ==
    (reader.inColumn /\ ~reader.inQuote /\ ~HasError(events)) =>
        ~Occurs(reader.quote, reader.columnBuffer)

(***************************************************************************)
(* C8.  When a quoted field is closed, the "Expected EOF,                  *)
(* COLUMN_SEPARATOR, LINE_SEPARATOR" error is raised exactly when the      *)
(* input goes on after the closing quote with bytes that start with        *)
(* neither separator; and the error is raised nowhere else.                *)
(***************************************************************************)
RaisesExpectedSeparator ==
    \E i \in 1..Len(NewEvents) : NewEvents[i].type = ExpectedSeparator

C8_ExpectedSeparatorExactly ==
    [][ /\ (reader.inQuote /\ ~reader'.inQuote) =>
              LET rest == SubArray(source.buf, reader'.currentPos)
              IN  RaisesExpectedSeparator <=>
                      /\ rest /= <<>>
                      /\ ~IsPrefixOf(reader.lineSeparator, rest)
                      /\ ~IsPrefixOf(reader.columnSeparator, rest)
        /\ RaisesExpectedSeparator => (reader.inQuote /\ ~reader'.inQuote)
      ]_vars

(***************************************************************************)
(* C10.  Every reported error carries line = 1 + the number of line        *)
(* separators of the input before the error offset and character = 1 +     *)
(* the distance from the end of the last of them.                          *)
(***************************************************************************)
C10_ErrorPosition ==
    [][ \A i \in 1..Len(NewEvents) :
            IsError(NewEvents[i]) =>
                LET seen == LineSeparatorsBefore(source.buf, reader'.currentPos,
                                                 reader.lineSeparator, 0, 0, 0)
                IN  /\ NewEvents[i].line = 1 + seen.n
                    /\ NewEvents[i].ch = 1 + reader'.currentPos - seen.lastEnd
      ]_vars

(***************************************************************************)
(* C9.  When the byte source has ended inside a quoted field the parser    *)
(* delivers "Expected quote, received EOF" and nothing else: no onEnd, no  *)
(* cell, no row end, however often it is resumed.                          *)
(***************************************************************************)
SourceEndedInQuote(r) ==
    r.inQuote /\ r.readerEmpty /\ r.inputBufferUnprocessed = 0

C9_Delivered ==
    (SourceEndedInQuote(reader) /\ ~active) =>
        /\ events /= <<>> /\ Last(events).type = ExpectedQuote
        /\ got /= <<>> /\ Last(got) = ErrorResult(Last(events))

C9_OnlyTheError ==
    SourceEndedInQuote(reader) =>
        /\ SourceEndedInQuote(reader')
        /\ \A i \in 1..Len(NewEvents) : NewEvents[i].type = ExpectedQuote

C9_UnterminatedQuote == []C9_Delivered /\ [][C9_OnlyTheError]_vars

C9_Witness ==
    /\ SourceEndedInQuote(reader)
    /\ got /= <<>> /\ Last(got).tag = "error"
    /\ Last(got).error.type = ExpectedQuote

(***************************************************************************)
(* Runs with a line range: readCSVRows over every content up to MaxLineLen *)
(* bytes with fromLine and toLine each absent or given as 0..MaxLine, the  *)
(* chunk size at its default or at 1..MaxHidden.  With these options the   *)
(* input and column buffers never reach their limits, so parseCycle never  *)
(* takes the shrink and expand branches, and no content starts with a BOM. *)
(***************************************************************************)
MaxLine == 2

MaxLineLen == 3

LineOptions == {<<>>} \cup {<<n>> : n \in 0..MaxLine}

LineCases ==
    {[content |-> c,
      options |-> [DefaultOptions EXCEPT !.fromLine = f, !.toLine = t,
                                         !._readerIteratorBufferSize = k],
      kind |-> "rows"] :
        c \in SeqsUpTo({97, 44, 10, 34}, MaxLineLen),
        f \in LineOptions, t \in LineOptions,
        k \in {DefaultReaderIteratorBufferSize} \cup 1..MaxHidden}

InitLines == \E c \in LineCases : Start(c)

NextLines ==
    \/ next
    \/ Paused
    \/ ReadMoreData
    \/ ChunkArrives
    \/ SkipLine
    \/ ToLine
    \/ Eof
    \/ LineSeparator
    \/ ColumnSeparator
    \/ StartColumn
    \/ DoubleQuote
    \/ EndQuotedColumn
    \/ EndUnquotedColumn
    \/ ReadColumn
    \/ Fail

SpecLines == InitLines /\ [][NextLines]_vars

\* the consumer keeps requesting and the event loop keeps running
FairSpecLines == InitLines /\ [][NextLines]_vars /\ WF_vars(NextLines)

\* the run of the same content without fromLine and toLine
FullRun == Run(run.content, [run.options EXCEPT !.fromLine = <<>>, !.toLine = <<>>])

(***************************************************************************)
(* C4.  With fromLine = a and toLine = b, a <= b, the rows read are the    *)
(* rows a..b-1 (0-based) of the rows read without fromLine and toLine.     *)
(* Stated for the inputs whose lines are their rows (no blank line and no  *)
(* quote), where line numbers and row indices coincide.                    *)
(***************************************************************************)
LinesAreRows(content, o) ==
    /\ ~Occurs(o.quote, content)
    /\ ~IsPrefixOf(o.lineSeparator, content)
    /\ ~Occurs(o.lineSeparator \o o.lineSeparator, content)

C4_LineRange ==
    LET a == run.options.fromLine
        b == run.options.toLine
    IN  (a /= <<>> /\ b /= <<>> /\ Finished) =>
            ((a[1] <= b[1] /\ LinesAreRows(run.content, run.options)
                           /\ ~HasError(FullRun.ev)) =>
                /\ FinishedDone
                /\ RowsGot = SubSeq(RowsOf(FullRun.ev), a[1] + 1,
                                    Min(b[1], Len(RowsOf(FullRun.ev)))))

(***************************************************************************)
(* C5.  Once the consumer has called next() and keeps requesting, a        *)
(* terminal callback, onEnd or onError, is eventually delivered.           *)
(* A pass of the loop that continues without changing any field and       *)
(* without awaiting is a step that leaves the state as it is: the loop     *)
(* spinning shows as a behaviour that stays in one state with active true. *)
(***************************************************************************)
TerminalDelivered ==
    \E i \in 1..Len(events) : events[i].type = "end" \/ IsError(events[i])

C5_Terminates == <>TerminalDelivered

(***************************************************************************)
(* Runs over rows of unquoted cells.  A cell is a text (a sequence of code *)
(* points); the content of the source is what MyReader makes of the joined *)
(* text: new TextEncoder().encode(content), UTF-8.                         *)
(***************************************************************************)
EncodeChar(cp) ==
    IF cp < 128 THEN <<cp>>
    ELSE <<224 + (cp \div 4096), 128 + ((cp \div 64) % 64), 128 + (cp % 64)>>

RECURSIVE Encode(_)
Encode(text) ==
    IF text = <<>> THEN <<>> ELSE EncodeChar(Head(text)) \o Encode(Tail(text))

\* the cells of a row joined by columnSeparator, the rows by lineSeparator
RECURSIVE JoinRow(_, _)
JoinRow(row, o) ==
    IF Len(row) = 1 THEN Encode(row[1])
    ELSE Encode(Head(row)) \o o.columnSeparator \o JoinRow(Tail(row), o)

RECURSIVE Join(_, _)
Join(rows, o) ==
    IF rows = <<>> THEN <<>>
    ELSE IF Len(rows) = 1 THEN JoinRow(rows[1], o)
    ELSE JoinRow(Head(rows), o) \o o.lineSeparator \o Join(Tail(rows), o)

(***************************************************************************)
(* Rows are drawn as token sequences up to MaxTokens long: a token is a    *)
(* character of a cell, or ends the cell (ColToken), or ends the row       *)
(* (LineToken).  Every list of at least one row, each of at least one      *)
(* cell, is the split of exactly one token sequence.                       *)
(***************************************************************************)
MaxTokens == 4

ColToken == -1

LineToken == -2

RECURSIVE SplitTokens(_, _, _, _)
SplitTokens(tok, cell, row, rows) ==
    IF tok = <<>> THEN Append(rows, Append(row, cell))
    ELSE IF Head(tok) = ColToken
    THEN SplitTokens(Tail(tok), <<>>, Append(row, cell), rows)
    ELSE IF Head(tok) = LineToken
    THEN SplitTokens(Tail(tok), <<>>, <<>>, Append(rows, Append(row, cell)))
    ELSE SplitTokens(Tail(tok), Append(cell, Head(tok)), row, rows)

RowsOfTokens(tok) == SplitTokens(tok, <<>>, <<>>, <<>>)

\* the delimiters and the characters cells are made of: the defaults with
\* cells of "a" and U+FEFF; two-byte separators ":;" and "\r\n" with cells of
\* the separators' first bytes
RowConfigs ==
    {[options |-> DefaultOptions, chars |-> {97, 65279}],
     [options |-> [DefaultOptions EXCEPT !.columnSeparator = <<58, 59>>,
                                         !.lineSeparator = <<13, 10>>],
      chars |-> {58, 13}]}

RowCase(rows, o) ==
    [content |-> Join(rows, o), options |-> o, kind |-> "rows", rows |-> rows]

RowCases ==
    UNION {{RowCase(RowsOfTokens(tk), o) :
               tk \in SeqsUpTo(c.chars \cup {ColToken, LineToken}, MaxTokens),
               o \in HiddenVariants(c.options)} : c \in RowConfigs}
    \cup {RowCase(<<>>, DefaultOptions)}

InitRows == \E c \in RowCases : Start(c)

\* no cell holds a quote, so parseCycle never enters a quoted column
NextRows ==
    \/ next
    \/ Paused
    \/ ReadMoreData
    \/ ChunkArrives
    \/ ShrinkInputBuffer
    \/ ExpandColumnBuffer
    \/ SkipBom
    \/ Eof
    \/ LineSeparator
    \/ ColumnSeparator
    \/ StartColumn
    \/ EndUnquotedColumn
    \/ ReadColumn

SpecRows == InitRows /\ [][NextRows]_vars

\* how often pat occurs in a (at any offset)
Count(pat, a) ==
    Cardinality({i \in 0..(Len(a) - Len(pat)) : hasPrefixFrom(a, pat, i)})

RECURSIVE CellCount(_)
CellCount(rows) ==
    IF rows = <<>> THEN 0 ELSE Len(Head(rows)) + CellCount(Tail(rows))

\* the cells are unquoted: the joined content holds no quote and no
\* separator but the ones that join the cells and the rows
UnquotedCells(rows, o) ==
    LET content == Join(rows, o)
    IN  /\ Count(o.quote, content) = 0
        /\ Count(o.columnSeparator, content) = CellCount(rows) - Len(rows)
        /\ Count(o.lineSeparator, content) = Max(Len(rows) - 1, 0)

\* a row that is one empty cell: joined, it is a blank line
BlankRow(rows) == \E i \in 1..Len(rows) : rows[i] = << <<>> >>

\* a cell whose text begins with U+FEFF
BomCell(rows) ==
    \E i \in 1..Len(rows) : \E j \in 1..Len(rows[i]) :
        rows[i][j] /= <<>> /\ rows[i][j][1] = 65279

RowsReturned == FinishedDone /\ RowsGot = run.rows

\* none of columnSeparator, lineSeparator and quote is a prefix of another
PrefixFree(o) ==
    \A d1, d2 \in {<<1, o.columnSeparator>>, <<2, o.lineSeparator>>, <<3, o.quote>>} :
        d1 /= d2 => ~IsPrefixOf(d1[2], d2[2])

RECURSIVE Double(_, _, _)
Double(c, q, i) ==
    IF i >= Len(c) THEN <<>>
    ELSE IF hasPrefixFrom(c, q, i) THEN q \o q \o Double(c, q, i + Len(q))
    ELSE <<c[i + 1]>> \o Double(c, q, i + 1)

Quoted(c, q) == q \o Double(c, q, 0) \o q

RECURSIVE Flatten(_)
Flatten(units) ==
    IF units = <<>> THEN <<>> ELSE Head(units) \o Flatten(Tail(units))

(***************************************************************************)
(* The delimiters and the byte strings the cell is made of, up to          *)
(* MaxTokens of them:                                                      *)
(*   the defaults, with "a", the quote and both separators;                *)
(*   the defaults, with the quote, a BOM and a byte that is not UTF-8;     *)
(*   quote ' with the separators ":;" and "\r\n", their first bytes alone; *)
(*   the two-byte quote "aa";                                              *)
(*   the line separator "\"\n", which begins with the quote.               *)
(***************************************************************************)
QuotedConfigs ==
    {[options |-> DefaultOptions, units |-> {<<97>>, <<34>>, <<44>>, <<10>>}],
     [options |-> DefaultOptions, units |-> {<<34>>, utfBom, <<255>>}],
     [options |-> [DefaultOptions EXCEPT !.quote = <<39>>,
                                         !.columnSeparator = <<58, 59>>,
                                         !.lineSeparator = <<13, 10>>],
      units |-> {<<39>>, <<58>>, <<13>>, <<13, 10>>}],
     [options |-> [DefaultOptions EXCEPT !.quote = <<97, 97>>],
      units |-> {<<97>>, <<98>>}],
     [options |-> [DefaultOptions EXCEPT !.lineSeparator = <<34, 10>>],
      units |-> {<<10>>, <<97>>}]}

QuotedCase(c, o) ==
    [content |-> Quoted(c, o.quote), options |-> o, kind |-> "rows", cell |-> c]

QuotedCases ==
    UNION {{QuotedCase(Flatten(u), o) :
               u \in SeqsUpTo(c.units, MaxTokens),
               o \in HiddenVariants(c.options)} : c \in QuotedConfigs}

InitQuoted == \E c \in QuotedCases : Start(c)

\* a quoted cell is read to its closing quote, after which the input ends;
\* with the line separator "\"\n" the opening quote can be taken for a
\* separator and the rest read as unquoted
NextQuoted ==
    \/ next
    \/ ReadMoreData
    \/ ChunkArrives
    \/ ShrinkInputBuffer
    \/ ExpandColumnBuffer
    \/ Eof
    \/ LineSeparator
    \/ StartColumn
    \/ DoubleQuote
    \/ EndQuotedColumn
    \/ EndUnquotedColumn
    \/ ReadColumn
    \/ Fail

SpecQuoted == InitQuoted /\ [][NextQuoted]_vars

\* exactly one row with exactly one cell, whose bytes equal c
OneCellReturned ==
    /\ FinishedDone
    /\ Len(RowsGot) = 1
    /\ Len(RowsGot[1]) = 1
    /\ Encode(RowsGot[1][1]) = run.cell

IsText(c) == Encode(DecodeFrom(c, 1)) = c /\ ~IsPrefixOf(utfBom, c)

\* the quote is one byte and no separator begins with it
PlainQuote(o) ==
    /\ Len(o.quote) = 1
    /\ o.columnSeparator[1] /= o.quote[1]
    /\ o.lineSeparator[1] /= o.quote[1]

WithoutBom == Run(SubArray(run.content, Len(utfBom)), run.options)

C11_BomIgnored ==
    (/\ Finished
     /\ IsPrefixOf(utfBom, run.content)
     /\ ~IsPrefixOf(utfBom, SubArray(run.content, Len(utfBom)))
     /\ ~HasError(WithoutBom.ev)) =>
        (FinishedDone /\ RowsGot = RowsOf(WithoutBom.ev))

(***************************************************************************)
(* Runs of readCSVRows with the default options over every content up to   *)
(* MaxBlankLen bytes of "a", the quote and the two separators.             *)
(***************************************************************************)
MaxBlankLen == 5

BlankCases ==
    {[content |-> c, options |-> DefaultOptions, kind |-> "rows"] :
        c \in SeqsUpTo({97, 44, 10, 34}, MaxBlankLen)}

InitBlank == \E c \in BlankCases : Start(c)

\* with the default buffer sizes parseCycle never shrinks or expands
NextBlank ==
    \/ next
    \/ Paused
    \/ ReadMoreData
    \/ ChunkArrives
    \/ Eof
    \/ LineSeparator
    \/ ColumnSeparator
    \/ StartColumn
    \/ DoubleQuote
    \/ EndQuotedColumn
    \/ EndUnquotedColumn
    \/ ReadColumn
    \/ Fail

SpecBlank == InitBlank /\ [][NextBlank]_vars

\* the lines of a: the bytes between the line separators, left to right
RECURSIVE LinesFrom(_, _, _, _, _)
LinesFrom(a, sep, i, line, lines) ==
    IF i >= Len(a) THEN Append(lines, line)
    ELSE IF hasPrefixFrom(a, sep, i)
    THEN LinesFrom(a, sep, i + Len(sep), <<>>, Append(lines, line))
    ELSE LinesFrom(a, sep, i + 1, Append(line, a[i + 1]), lines)

RECURSIVE JoinLines(_, _)
JoinLines(lines, sep) ==
    IF lines = <<>> THEN <<>>
    ELSE IF Len(lines) = 1 THEN lines[1]
    ELSE Head(lines) \o sep \o JoinLines(Tail(lines), sep)

\* a without its blank lines and without a trailing line separator
WithoutBlankLines(a, sep) ==
    JoinLines(SelectSeq(LinesFrom(a, sep, 0, <<>>, <<>>), LAMBDA l : l /= <<>>),
              sep)

\* no field of a is quoted, so every line separator of a ends a line
NoQuotedField(a, o) ==
    /\ ~IsPrefixOf(o.quote, a)
    /\ ~Occurs(o.lineSeparator \o o.quote, a)
    /\ ~Occurs(o.columnSeparator \o o.quote, a)

(***************************************************************************)
(* C12.  The rows read from an input are the rows read from the same       *)
(* input with every blank line and a trailing line separator removed.      *)
(* Stated for the inputs without a quoted field, where a line is what lies *)
(* between two line separators.                                            *)
(***************************************************************************)
C12_BlankLinesSkipped ==
    (Finished /\ NoQuotedField(run.content, run.options)) =>
        LET ref == Run(WithoutBlankLines(run.content, run.options.lineSeparator),
                       run.options)
        IN  /\ RowsGot = RowsOf(ref.ev)
            /\ FinishedDone <=> ~HasError(ref.ev)

\* a line made of column separators only: at least two cells, all empty
OnlySeparators(row) == Len(row) >= 2 /\ \A j \in 1..Len(row) : row[j] = <<>>

\* the rows of the lines that are not blank
NonBlankRows == SelectSeq(run.rows, LAMBDA row : row /= << <<>> >>)

(***************************************************************************)
(* C13.  A line of k >= 1 column separators and nothing else yields a row  *)
(* of k + 1 empty strings: it is not skipped, and the row after it is the  *)
(* row of the next line that is not blank, with no cell of it added.       *)
(***************************************************************************)
C13_EmptyCellsRow ==
    (Finished /\ ~BomCell(run.rows)) =>
        /\ FinishedDone
        /\ Len(RowsGot) = Len(NonBlankRows)
        /\ \A i \in 1..Len(NonBlankRows) :
               OnlySeparators(NonBlankRows[i]) =>
                   /\ RowsGot[i] = NonBlankRows[i]
                   /\ i < Len(NonBlankRows) => RowsGot[i + 1] = NonBlankRows[i + 1]

\* a line of separators followed by a blank line and a line with a cell,
\* read in chunks of one byte
C13_Witness ==
    /\ FinishedDone
    /\ Len(run.rows) = 3
    /\ OnlySeparators(run.rows[1])
    /\ run.rows[2] = << <<>> >>
    /\ run.rows[3] /= << <<>> >> /\ ~OnlySeparators(run.rows[3])
    /\ ~BomCell(run.rows)
    /\ RowsGot = <<run.rows[1], run.rows[3]>>
    /\ run.options._readerIteratorBufferSize = 1

(***************************************************************************)
(* Runs of readCSVStream with toLine absent or 1..MaxLine, the other       *)
(* options at their defaults, over every content up to MaxToLineLen bytes  *)
(* of "a", the quote and the two separators.                               *)
(***************************************************************************)
MaxToLineLen == 6

ToLineCases ==
    {[content |-> c, options |-> [DefaultOptions EXCEPT !.toLine = t],
      kind |-> "stream"] :
        c \in SeqsUpTo({97, 44, 10, 34}, MaxToLineLen),
        t \in {<<>>} \cup {<<n>> : n \in 1..MaxLine}}

InitToLine == \E c \in ToLineCases : Start(c)

NextToLine ==
    \/ next
    \/ Paused
    \/ ReadMoreData
    \/ ChunkArrives
    \/ ToLine
    \/ Eof
    \/ LineSeparator
    \/ ColumnSeparator
    \/ StartColumn
    \/ DoubleQuote
    \/ EndQuotedColumn
    \/ EndUnquotedColumn
    \/ ReadColumn
    \/ Fail

SpecToLine == InitToLine /\ [][NextToLine]_vars

\* the callbacks up to the first onEnd or onError
RECURSIVE UpToTerminal(_)
UpToTerminal(ev) ==
    IF ev = <<>> THEN <<>>
    ELSE IF Head(ev).type = "end" \/ IsError(Head(ev)) THEN <<Head(ev)>>
    ELSE <<Head(ev)>> \o UpToTerminal(Tail(ev))

(***************************************************************************)
(* C14.  Up to the terminal callback the callbacks follow the pattern      *)
(* (onCell+ onRowEnd)* onEnd: onRowEnd comes only after a cell, and onEnd  *)
(* comes only first or after an onRowEnd, so that no emitted cell is left  *)
(* without the onRowEnd of its row.                                        *)
(***************************************************************************)
C14_CallbackPattern ==
    LET ev == UpToTerminal(events)
    IN  \A i \in 1..Len(ev) :
            /\ ev[i].type = "rowEnd" => (i > 1 /\ ev[i - 1].type = "cell")
            /\ ev[i].type = "end" => (i = 1 \/ ev[i - 1].type = "rowEnd")

(***************************************************************************)
(* readCSV: CSVRowIteratorReader (src/reader.ts:2263-2370) with its        *)
(* RowIterator (2214-2261).  The adapter receives the callbacks as         *)
(* CSVStreamReader does; for this adapter got is what the promises of      *)
(* onRequested() settled with, and the view records besides                *)
(*   rowIterator  this.rowIterator (set = FALSE: undefined)                *)
(*   at           where the consumer's call stands: "idle" (no call        *)
(*                outstanding), "drain" (outer next() in readTillEnd),     *)
(*                "look" (outer next() from its test of done on),          *)
(*                "inner" (next() of the row iterator)                     *)
(*   awaiting     the call awaits a promise of onRequested()               *)
(*   out          what the outer next() calls settled with, and the        *)
(*                rejection of an inner next()                             *)
(*   cells        for each row iterator yielded, the cells the consumer    *)
(*                has read from it                                         *)
(*   open         the consumer may still call next() on the row iterator   *)
(*                it holds                                                 *)
(***************************************************************************)
NewRowIterator == [set |-> TRUE, done |-> FALSE, buffer |-> <<>>]

NewNestedView ==
    [kind |-> "nested", done |-> FALSE, row |-> <<>>, buffer |-> <<>>,
     pending |-> FALSE, shared |-> 0,
     rowIterator |-> [set |-> FALSE, done |-> FALSE, buffer |-> <<>>],
     at |-> "idle", awaiting |-> FALSE, out |-> <<>>, cells |-> <<>>,
     open |-> FALSE]

\* onRequested() (2319-2346) with no promise outstanding: res is what the
\* promise is settled with at once, <<>> when it waits for the reader
onRequested(v, r) ==
    IF v.buffer /= <<>>
    THEN [view |-> [v EXCEPT !.buffer = Tail(@)], rd |-> r,
          started |-> FALSE, res |-> <<Head(v.buffer)>>]
    ELSE [view |-> [v EXCEPT !.pending = TRUE], rd |-> read(r).rd,
          started |-> read(r).started, res |-> <<>>]

\* lookForward() that does not keep the result it has read
lookForwardDropsResult(v, res) ==
    LET w == [v EXCEPT !.at = "idle", !.awaiting = FALSE]
    IN  IF res.tag = "error" THEN [w EXCEPT !.out = Append(@, res)]
        ELSE IF v.done /\ res.tag = "done"
        THEN [w EXCEPT !.out = Append(@, DoneResult)]
        ELSE [w EXCEPT !.out = Append(@, ValueResult(<<>>)),
                       !.cells = Append(@, <<>>),
                       !.open = TRUE]

\* lookForward() after its await and the rest of the outer next() (2235-2239,
\* 2358-2364); a rejection leaves next() through the await
lookForward(v, res) ==
    LET w == [v EXCEPT !.at = "idle", !.awaiting = FALSE]
    IN  IF res.tag = "error" THEN [w EXCEPT !.out = Append(@, res)]
        ELSE IF v.done /\ res.tag = "done"
        THEN [w EXCEPT !.rowIterator.buffer = Append(@, res),
                       !.out = Append(@, DoneResult)]
        ELSE [w EXCEPT !.rowIterator.buffer = Append(@, res),
                       !.out = Append(@, ValueResult(<<>>)),
                       !.cells = Append(@, <<>>),
                       !.open = TRUE]

\* RowIterator.next() where readTillEnd takes the first cell it reads for
\* the end of the row
RowIteratorNextDrainsOneCell(v, res) ==
    LET w == [v EXCEPT !.awaiting = FALSE]
    IN  IF res.tag = "error"
        THEN [w EXCEPT !.at = "idle", !.open = FALSE, !.out = Append(@, res)]
        ELSE IF res.tag \in {"done", "newLine"} \/ v.at = "drain"
        THEN [w EXCEPT !.rowIterator.done = TRUE,
                       !.open = FALSE,
                       !.at = IF v.at = "drain" THEN "drain" ELSE "idle"]
        ELSE [w EXCEPT !.at = "idle",
                       !.cells[Len(v.cells)] = Append(@, res.value)]

\* RowIterator.next() from its result on (2248-2255), called by readTillEnd
\* (v.at = "drain", 2225-2233) or by the consumer (v.at = "inner")
RowIteratorNext(v, res) ==
    LET w == [v EXCEPT !.awaiting = FALSE]
    IN  IF res.tag = "error"
        THEN [w EXCEPT !.at = "idle", !.open = FALSE, !.out = Append(@, res)]
        ELSE IF res.tag \in {"done", "newLine"}
        THEN [w EXCEPT !.rowIterator.done = TRUE,
                       !.open = FALSE,
                       !.at = IF v.at = "drain" THEN "drain" ELSE "idle"]
        ELSE IF v.at = "drain" THEN w
        ELSE [w EXCEPT !.at = "idle",
                       !.cells[Len(v.cells)] = Append(@, res.value)]

\* the call standing at v.at goes on with the result of onRequested()
Resume(v, res) ==
    IF v.at = "look" THEN lookForward(v, res) ELSE RowIteratorNext(v, res)

\* a call of onRequested() by the row iterator and what follows when the
\* promise is settled at once
Request(v) ==
    LET q == onRequested(v, reader)
    IN  IF q.res /= <<>>
        THEN /\ view' = Resume(q.view, q.res[1])
             /\ got' = Append(got, q.res[1])
             /\ UNCHANGED <<reader, active>>
        ELSE /\ view' = [q.view EXCEPT !.awaiting = TRUE]
             /\ reader' = q.rd
             /\ active' = q.started
             /\ UNCHANGED got

\* the consumer calls next() of the outer iterator (2348-2349)
OuterNext ==
    /\ ~active
    /\ view.at = "idle"
    /\ Terminals(view.out) <= MaxExtraNext
    /\ view' = [view EXCEPT !.open = FALSE,
                            !.at = IF view.rowIterator.set THEN "drain"
                                   ELSE "look"]
    /\ UNCHANGED <<source, inflight, reader, active, got, events, run>>

\* one round of readTillEnd() (2225-2233, 2241-2247), and 2351 when it returns
ReadTillEnd ==
    /\ ~active
    /\ view.at = "drain"
    /\ ~view.awaiting
    /\ IF view.rowIterator.done
       THEN /\ view' = [view EXCEPT !.rowIterator.set = FALSE, !.at = "look"]
            /\ UNCHANGED <<reader, active, got>>
       ELSE IF view.rowIterator.buffer /= <<>>
       THEN /\ view' = RowIteratorNext(
                           [view EXCEPT !.rowIterator.buffer = Tail(@)],
                           Head(view.rowIterator.buffer))
            /\ UNCHANGED <<reader, active, got>>
       ELSE Request(view)
    /\ UNCHANGED <<source, inflight, events, run>>

\* the outer next() from its test of done to its await (2353-2358)
LookForward ==
    /\ ~active
    /\ view.at = "look"
    /\ ~view.awaiting
    /\ IF view.done
       THEN /\ view' = [view EXCEPT !.at = "idle", !.out = Append(@, DoneResult)]
            /\ UNCHANGED <<reader, active, got>>
       ELSE Request([view EXCEPT !.rowIterator = NewRowIterator])
    /\ UNCHANGED <<source, inflight, events, run>>

\* the consumer calls next() of the row iterator it holds (2241-2247)
InnerNext ==
    /\ ~active
    /\ view.at = "idle"
    /\ view.open
    /\ IF view.rowIterator.done
       THEN /\ view' = [view EXCEPT !.open = FALSE]
            /\ UNCHANGED <<reader, active, got>>
       ELSE IF view.rowIterator.buffer /= <<>>
       THEN /\ view' = RowIteratorNext(
                           [view EXCEPT !.rowIterator.buffer = Tail(@),
                                        !.at = "inner"],
                           Head(view.rowIterator.buffer))
            /\ UNCHANGED <<reader, active, got>>
       ELSE Request([view EXCEPT !.at = "inner"])
    /\ UNCHANGED <<source, inflight, events, run>>

\* the promise of onRequested() has been settled by a callback (2302-2317):
\* the call that awaits it goes on
Settled ==
    /\ ~active
    /\ view.awaiting
    /\ ~view.pending
    /\ view' = Resume(view, Last(got))
    /\ UNCHANGED <<source, inflight, reader, active, got, events, run>>

MaxNestedLen == 3

\* every content up to MaxNestedLen bytes, read in one chunk or byte by byte
NestedCases ==
    {[content |-> c,
      options |-> [DefaultOptions EXCEPT !._readerIteratorBufferSize = n],
      kind |-> "nested"] :
        c \in SeqsUpTo({97, 44, 10, 34}, MaxNestedLen),
        n \in {1, DefaultReaderIteratorBufferSize}}

InitNested ==
    \E c \in NestedCases :
        /\ source = NewSource(c.content, c.options._readerIteratorBufferSize)
        /\ inflight = <<>>
        /\ reader = NewCSVReader(c.options)
        /\ active = FALSE
        /\ view = NewNestedView
        /\ got = <<>>
        /\ events = <<>>
        /\ run = c

NextNested ==
    \/ OuterNext
    \/ ReadTillEnd
    \/ LookForward
    \/ InnerNext
    \/ Settled
    \/ Paused
    \/ ReadMoreData
    \/ ChunkArrives
    \/ Eof
    \/ LineSeparator
    \/ ColumnSeparator
    \/ StartColumn
    \/ DoubleQuote
    \/ EndQuotedColumn
    \/ EndUnquotedColumn
    \/ ReadColumn
    \/ Fail

SpecNested == InitNested /\ [][NextNested]_vars

\* the tokens readCSVStream has delivered before it answered done or rejected
TokensGot ==
    SubSeq(got, 1, IF Finished THEN FirstTerminal(got) - 1 ELSE Len(got))

(***************************************************************************)
(* C15.  When readCSVStream ends normally, its tokens cut at each NEW_LINE *)
(* are the rows the reader delivers to readCSVRows for the same input and  *)
(* options, and the token sequence is empty or ends with NEW_LINE: no      *)
(* cell is left without the NEW_LINE of its row.                           *)
(***************************************************************************)
C15_ViewsAgree ==
    (FinishedDone /\ view.kind = "stream") =>
        /\ RowsGot = RowsOf(Run(run.content, run.options).ev)
        /\ TokensGot = <<>> \/ Last(TokensGot).tag = "newLine"

\* the rows the reader delivers for the content and the options of this run,
\* and whether it raises no error, so that the input has rows
ReaderRows ==
    LET ev == Run(run.content, run.options).ev
    IN  [rows |-> RowsOf(ev), ok |-> ~HasError(ev)]

\* the consumer's for await loop over readCSV has ended normally
NestedDone ==
    /\ FirstTerminal(view.out) > 0
    /\ view.out[FirstTerminal(view.out)].tag = "done"

(***************************************************************************)
(* C16.  For an input the reader parses without error, whatever number of  *)
(* cells the consumer of readCSV reads from each row iterator: the k-th    *)
(* row iterator yields cells of the k-th row only, in order from its first *)
(* cell, never more iterators are yielded than the input has rows, and     *)
(* when the outer iterator has answered done their number is the number of *)
(* rows.                                                                   *)
(***************************************************************************)
C16_OneIteratorPerRow ==
    LET ref == ReaderRows
    IN  (/\ view.kind = "nested"
         /\ view.cells /= <<>> \/ NestedDone
         /\ ref.ok) =>
            /\ Len(view.cells) <= Len(ref.rows)
            /\ \A k \in 1..Len(view.cells) :
                   IsPrefixOf(view.cells[k], ref.rows[k])
            /\ NestedDone => Len(view.cells) = Len(ref.rows)

\* two rows of two cells: none read from the first iterator, one from the second
C16_Witness ==
    /\ view.kind = "nested"
    /\ run.content = <<44, 10, 44>>
    /\ NestedDone
    /\ view.cells = << <<>>, << <<>> >> >>

\* the consumer holds a row iterator of which it has not read anything yet
IteratorYielded ==
    /\ view.at = "idle"
    /\ view.out /= <<>>
    /\ Last(view.out).tag = "value"
    /\ view.open
    /\ Last(view.cells) = <<>>

\* the consumer has read the row iterator it holds until it answered done
IteratorExhausted ==
    /\ view.at = "idle"
    /\ view.out /= <<>>
    /\ Last(view.out).tag = "value"
    /\ ~view.open

\* the content is empty or holds line separators only
OnlyBlankLines == \A i \in 1..Len(run.content) : run.content[i] = 10

(***************************************************************************)
(* C17.  For an input the reader parses without error, readCSV yields no   *)
(* row iterator without cells: a content of blank lines only (the empty    *)
(* content included) makes the outer iterator answer done without yielding *)
(* anything; a row iterator is yielded holding the first cell of its row,  *)
(* the one read ahead; and read to its end it gives the whole row, which   *)
(* is not empty (so none is yielded for what follows a final line          *)
(* separator).                                                             *)
(***************************************************************************)
C17_NoEmptyFinalRow ==
    LET ref == ReaderRows
    IN  (/\ view.kind = "nested"
         /\ view.cells /= <<>>
         /\ OnlyBlankLines \/ IteratorYielded \/ IteratorExhausted
         /\ ref.ok) =>
            /\ ~OnlyBlankLines
            /\ IteratorYielded =>
                   /\ Len(view.cells) <= Len(ref.rows)
                   /\ view.rowIterator.buffer =
                          <<ValueResult(ref.rows[Len(view.cells)][1])>>
            /\ IteratorExhausted =>
                   /\ Len(view.cells) <= Len(ref.rows)
                   /\ Last(view.cells) /= <<>>
                   /\ Last(view.cells) = ref.rows[Len(view.cells)]

\* "a" and a final line separator: one row iterator, read to its end, then done
C17_Witness ==
    /\ view.kind = "nested"
    /\ run.content = <<97, 10>>
    /\ NestedDone
    /\ view.cells = << << <<97>> >> >>

(***************************************************************************)
(* An adapter used again after it has answered done, as the tests          *)
(* "couldn't be used twice" do (src/reader_test.ts:265-347): the byte      *)
(* source is reset and next() is called again.  readCSVStream, readCSVRows *)
(* and readCSV over every content up to MaxReuseLen bytes, toLine absent   *)
(* or 1.                                                                   *)
(***************************************************************************)
MaxReuseLen == 3

\* what the consumer's next() calls on the adapter have settled with
Results == IF view.kind = "nested" THEN view.out ELSE got

ReturnedDone == \E i \in 1..Len(Results) : Results[i].tag = "done"

\* MyReader.reset() (src/reader_test.ts:39-41), called after the adapter has
\* answered done
Reset ==
    /\ ~active
    /\ ReturnedDone
    /\ source.index /= 0
    /\ source' = [source EXCEPT !.index = 0]
    /\ UNCHANGED <<inflight, reader, active, view, got, events, run>>

\* next() of CSVStreamReader or CSVRowReader
ViewNext == view.kind /= "nested" /\ next

\* the calls of CSVRowIteratorReader and RowIterator
NestedStep ==
    /\ view.kind = "nested"
    /\ \/ OuterNext
       \/ ReadTillEnd
       \/ LookForward
       \/ InnerNext
       \/ Settled

ReuseCases ==
    {[content |-> c, options |-> [DefaultOptions EXCEPT !.toLine = t],
      kind |-> k] :
        c \in SeqsUpTo({97, 44, 10, 34}, MaxReuseLen),
        t \in {<<>>, <<1>>},
        k \in {"stream", "rows", "nested"}}

InitReuse ==
    \E c \in ReuseCases :
        /\ source = NewSource(c.content, c.options._readerIteratorBufferSize)
        /\ inflight = <<>>
        /\ reader = NewCSVReader(c.options)
        /\ active = FALSE
        /\ view = IF c.kind = "nested" THEN NewNestedView ELSE NewView(c.kind)
        /\ got = <<>>
        /\ events = <<>>
        /\ run = c

NextReuse ==
    \/ ViewNext
    \/ NestedStep
    \/ Reset
    \/ Paused
    \/ ReadMoreData
    \/ ChunkArrives
    \/ ToLine
    \/ Eof
    \/ LineSeparator
    \/ ColumnSeparator
    \/ StartColumn
    \/ DoubleQuote
    \/ EndQuotedColumn
    \/ EndUnquotedColumn
    \/ ReadColumn
    \/ Fail

SpecReuse == InitReuse /\ [][NextReuse]_vars

(***************************************************************************)
(* C18.  Once an adapter has answered done, no step gives its consumer     *)
(* anything but another done, no step asks the byte source for data (no    *)
(* chunk is requested or received), also after the source has been reset.  *)
(***************************************************************************)
C18_DoneIsFinal ==
    [][ReturnedDone =>
          /\ Results' = Results \/ Results' = Append(Results, DoneResult)
          /\ view.kind = "nested" => view'.cells = view.cells
          /\ inflight' = inflight
          /\ source' = source \/ source' = [source EXCEPT !.index = 0]]_vars

\* readCSV has answered done, the source has been reset and the next call has
\* answered done again
C18_Witness ==
    /\ view.kind = "nested"
    /\ run.content /= <<>>
    /\ source.index = 0
    /\ view.at = "idle"
    /\ Len(view.out) >= 2
    /\ view.out[Len(view.out) - 1].tag = "done"
    /\ Last(view.out).tag = "done"

(***************************************************************************)
(* A client of CSVReader that calls read() again after onEnd.  Its         *)
(* callbacks are those of CSVRowReader, which store the result and call    *)
(* pause() (2125-2163), so the reader is paused when read() is called.     *)
(***************************************************************************)
MaxReadAgain == 1

\* the number of onEnd callbacks so far
Ends == Cardinality({i \in 1..Len(events) : events[i].type = "end"})

\* reader.read() (1684-1689) called once onEnd has been delivered
ReadAgain ==
    /\ ~active
    /\ inflight = <<>>
    /\ Ends \in 1..MaxReadAgain
    /\ reader' = read(reader).rd
    /\ active' = read(reader).started
    /\ UNCHANGED <<source, inflight, view, got, events, run>>

NextDirect ==
    \/ next
    \/ ReadAgain
    \/ Paused
    \/ ReadMoreData
    \/ ChunkArrives
    \/ Eof
    \/ LineSeparator
    \/ ColumnSeparator
    \/ StartColumn
    \/ DoubleQuote
    \/ EndQuotedColumn
    \/ EndUnquotedColumn
    \/ ReadColumn
    \/ Fail

SpecDirect == InitBlank /\ [][NextDirect]_vars

(***************************************************************************)
(* C19.  After onEnd the reader makes no further callback: an onEnd is the *)
(* last callback of the run, whatever calls of pause() and read() follow.  *)
(***************************************************************************)
C19_TerminalAfterEnd ==
    \A i \in 1..Len(events) : events[i].type = "end" => i = Len(events)

(***************************************************************************)
(* readCSVObjects (src/reader.ts:2394-2413) over the rows of CSVRowReader. *)
(* An object is a function from its keys to their values; undefined is the *)
(* value of row[i] when the row has no cell i.                             *)
(***************************************************************************)
undefined == <<-1>>

\* the loop with the first assignment to a key kept
RECURSIVE ObjectLoopFirstWins(_, _, _, _)
ObjectLoopFirstWins(obj, header, row, i) ==
    IF i > Len(header) THEN obj
    ELSE ObjectLoopFirstWins(
             obj @@ (header[i] :> IF i <= Len(row) THEN row[i] ELSE undefined),
             header, row, i + 1)

\* for (let i = 0; i < header.length; i++) obj[header[i]] = row[i] (2406-2409)
RECURSIVE ObjectLoop(_, _, _, _)
ObjectLoop(obj, header, row, i) ==
    IF i > Len(header) THEN obj
    ELSE ObjectLoop(
             (header[i] :> IF i <= Len(row) THEN row[i] ELSE undefined) @@ obj,
             header, row, i + 1)

\* the objects yielded for the rows: the first row is kept as the header
readCSVObjects(rows) ==
    [k \in 1..(Len(rows) - 1) |-> ObjectLoop(<<>>, rows[1], rows[k + 1], 1)]

\* the objects readCSVObjects has yielded for the rows read so far
ObjectsGot == readCSVObjects(RowsGot)

\* the value the loop gives to the key header[i]
CellOrUndefined(row, i) == IF i <= Len(row) THEN row[i] ELSE undefined

(***************************************************************************)
(* C20 as stated.  readCSVObjects yields one object per row after the      *)
(* first, none for a header alone; the keys of the k-th object are the     *)
(* cells of the header and it maps header[i] to cell i of row k+1 for      *)
(* every i.                                                                *)
(***************************************************************************)
C20_HeaderToCell ==
    view.kind = "rows" =>
        /\ Len(ObjectsGot) = IF RowsGot = <<>> THEN 0 ELSE Len(RowsGot) - 1
        /\ \A k \in 1..Len(ObjectsGot) :
               LET header == RowsGot[1]
                   row == RowsGot[k + 1]
               IN  /\ DOMAIN ObjectsGot[k] = {header[i] : i \in 1..Len(header)}
                   /\ \A i \in 1..Len(header) :
                          ObjectsGot[k][header[i]] = CellOrUndefined(row, i)

(***************************************************************************)
(* C20 amended.  As above, but a name that occurs several times in the     *)
(* header is mapped to the cell at its last occurrence, and a name at a    *)
(* position the row does not reach is mapped to undefined.                 *)
(***************************************************************************)
C20_LastHeaderToCell ==
    view.kind = "rows" =>
        /\ Len(ObjectsGot) = IF RowsGot = <<>> THEN 0 ELSE Len(RowsGot) - 1
        /\ \A k \in 1..Len(ObjectsGot) :
               LET header == RowsGot[1]
                   row == RowsGot[k + 1]
               IN  /\ DOMAIN ObjectsGot[k] = {header[i] : i \in 1..Len(header)}
                   /\ \A i \in 1..Len(header) :
                          (\A j \in (i + 1)..Len(header) : header[j] /= header[i])
                              => ObjectsGot[k][header[i]] = CellOrUndefined(row, i)

\* header ["a", ""] and the row ["", "a"]: one object with two keys
C20_Witness ==
    /\ view.kind = "rows"
    /\ run.content = <<97, 44, 10, 44, 97>>
    /\ FinishedDone
    /\ Len(ObjectsGot) = 1
    /\ ObjectsGot[1][<<97>>] = <<>>
    /\ ObjectsGot[1][<<>>] = <<97>>

(***************************************************************************)
(* C21.  A toLine that is supplied is the first line not emitted: with     *)
(* toLine = 0, and with any toLine not above fromLine, a run that ends     *)
(* ends normally and has returned no row.                                  *)
(***************************************************************************)
C21_ToLineIsBound ==
    (/\ Finished
     /\ run.options.toLine /= <<>>
     /\ \/ run.options.toLine = <<0>>
        \/ /\ run.options.fromLine /= <<>>
           /\ run.options.toLine[1] <= run.options.fromLine[1]) =>
        (FinishedDone /\ RowsGot = <<>>)

(***************************************************************************)
(* CSVWriter (src/writer.ts:26-131) and writeCSV (133-155).  In the        *)
(* specifications of the writer the variables hold                         *)
(*   run      the options and the calls the client makes, in order         *)
(*   view     the CSVWriter                                                *)
(*   active   a writeCell call is running                                  *)
(*   reader   the locals of the running _writeCellAsyncIterable            *)
(*   source   the chunks the cell's iterator has still to yield            *)
(*   got      the arrays passed to writer.write(), in order                *)
(*   events   the calls made so far, each with the number of write()       *)
(*            calls made before it                                         *)
(* and inflight stays empty.  A call is writeCell(cell, {forceQuotes}) or  *)
(* nextLine(); a cell is given by its chunks: one chunk for a string or a  *)
(* Uint8Array, which dummyAsyncIterable yields whole, any number for an    *)
(* async iterable.                                                         *)
(***************************************************************************)
CellCall(chunks, iterable, forceQuotes) ==
    [op |-> "cell", chunks |-> chunks, iterable |-> iterable,
     forceQuotes |-> forceQuotes]

NextLineCall ==
    [op |-> "nextLine", chunks |-> <<>>, iterable |-> FALSE,
     forceQuotes |-> FALSE]

\* constructor (34-43): an option that is absent (<<>>) takes its default
NewCSVWriter(o) ==
    [kind |-> "writer",
     columnSeparator |-> IF o.columnSeparator = <<>> THEN DefaultColumnSeparator
                         ELSE o.columnSeparator[1],
     lineSeparator |-> IF o.lineSeparator = <<>> THEN DefaultLineSeparator
                       ELSE o.lineSeparator[1],
     quote |-> IF o.quote = <<>> THEN DefaultQuote ELSE o.quote[1],
     firstColumn |-> TRUE]

\* writeCell (45-62): whether the cell is wrapped in quotes
wrap(w, call) ==
    \/ call.iterable
    \/ call.forceQuotes
    \/ Occurs(w.quote, Flatten(call.chunks))
    \/ Occurs(w.columnSeparator, Flatten(call.chunks))
    \/ Occurs(w.lineSeparator, Flatten(call.chunks))

\* the loop round that writes one quote for a quote of the cell
WriteLoopKeepsQuote(w, loc, chunks) ==
    LET unprocessed == Len(loc.inputBuffer) - loc.inputBufferIndex
    IN  IF loc.inputBufferEmpty /\ unprocessed = 0
        THEN [loc |-> loc, chunks |-> chunks,
              out |-> IF loc.wrap THEN <<w.quote>> ELSE <<>>, done |-> TRUE]
        ELSE IF ~loc.inputBufferEmpty /\ unprocessed < Len(w.quote)
        THEN IF chunks = <<>>
             THEN [loc |-> [loc EXCEPT !.inputBufferEmpty = TRUE],
                   chunks |-> chunks, out |-> <<>>, done |-> FALSE]
             ELSE [loc |-> [loc EXCEPT !.inputBuffer = @ \o Head(chunks)],
                   chunks |-> Tail(chunks), out |-> <<>>, done |-> FALSE]
        ELSE IF loc.wrap /\ hasPrefixFrom(loc.inputBuffer, w.quote, loc.inputBufferIndex)
        THEN [loc |-> [loc EXCEPT !.inputBufferIndex = @ + Len(w.quote)],
              chunks |-> chunks, out |-> <<w.quote>>, done |-> FALSE]
        ELSE [loc |-> [loc EXCEPT !.inputBufferIndex = @ + 1],
              chunks |-> chunks,
              out |-> <<SubSeq(loc.inputBuffer, loc.inputBufferIndex + 1,
                               loc.inputBufferIndex + 1)>>,
              done |-> FALSE]

\* one round of the loop of _writeCellAsyncIterable (88-120) and, when it
\* breaks, the closing quote (122-124): the locals, the chunks left, the
\* arrays written and whether the call returns
WriteLoop(w, loc, chunks) ==
    LET unprocessed == Len(loc.inputBuffer) - loc.inputBufferIndex
    IN  IF loc.inputBufferEmpty /\ unprocessed = 0
        THEN [loc |-> loc, chunks |-> chunks,
              out |-> IF loc.wrap THEN <<w.quote>> ELSE <<>>, done |-> TRUE]
        ELSE IF ~loc.inputBufferEmpty /\ unprocessed < Len(w.quote)
        THEN IF chunks = <<>>
             THEN [loc |-> [loc EXCEPT !.inputBufferEmpty = TRUE],
                   chunks |-> chunks, out |-> <<>>, done |-> FALSE]
             ELSE [loc |-> [loc EXCEPT !.inputBuffer = @ \o Head(chunks)],
                   chunks |-> Tail(chunks), out |-> <<>>, done |-> FALSE]
        ELSE IF loc.wrap /\ hasPrefixFrom(loc.inputBuffer, w.quote, loc.inputBufferIndex)
        THEN [loc |-> [loc EXCEPT !.inputBufferIndex = @ + Len(w.quote)],
              chunks |-> chunks, out |-> <<w.quote, w.quote>>, done |-> FALSE]
        ELSE [loc |-> [loc EXCEPT !.inputBufferIndex = @ + 1],
              chunks |-> chunks,
              out |-> <<SubSeq(loc.inputBuffer, loc.inputBufferIndex + 1,
                               loc.inputBufferIndex + 1)>>,
              done |-> FALSE]

\* the call the client makes next
NextCall == run.calls[Len(events) + 1]

\* writeCell up to the loop of _writeCellAsyncIterable (45-86)
writeCell ==
    /\ ~active
    /\ Len(events) < Len(run.calls)
    /\ NextCall.op = "cell"
    /\ reader' = [inputBuffer |-> <<>>, inputBufferEmpty |-> FALSE,
                  inputBufferIndex |-> 0, wrap |-> wrap(view, NextCall)]
    /\ source' = NextCall.chunks
    /\ view' = [view EXCEPT !.firstColumn = FALSE]
    /\ got' = got \o (IF view.firstColumn THEN <<>> ELSE <<view.columnSeparator>>)
                  \o (IF wrap(view, NextCall) THEN <<view.quote>> ELSE <<>>)
    /\ events' = Append(events, [call |-> NextCall, at |-> Len(got)])
    /\ active' = TRUE
    /\ UNCHANGED <<inflight, run>>

\* one round of the loop of the running call
WriteLoopRound ==
    /\ active
    /\ view.kind = "writer"
    /\ LET s == WriteLoop(view, reader, source)
       IN  /\ reader' = s.loc
           /\ source' = s.chunks
           /\ got' = got \o s.out
           /\ active' = ~s.done
    /\ UNCHANGED <<inflight, view, events, run>>

\* the state of the writer after nextLine that forgets to reset firstColumn
nextLineKeepsColumn(w) == w

\* the state of the writer after nextLine (127-130)
nextLineWriter(w) == [w EXCEPT !.firstColumn = TRUE]

nextLine ==
    /\ ~active
    /\ Len(events) < Len(run.calls)
    /\ NextCall.op = "nextLine"
    /\ view' = nextLineWriter(view)
    /\ got' = Append(got, view.lineSeparator)
    /\ events' = Append(events, [call |-> NextCall, at |-> Len(got)])
    /\ UNCHANGED <<source, inflight, reader, active, run>>

\* the calls writeCSV makes for the rows (133-155); a row is a list of calls
\* of writeCell
RECURSIVE writeCSV(_, _)
writeCSV(rows, firstLine) ==
    IF rows = <<>> THEN <<>>
    ELSE (IF firstLine THEN <<>> ELSE <<NextLineCall>>)
             \o Head(rows) \o writeCSV(Tail(rows), FALSE)

MaxCellLen == 3

MaxCalls == 3

\* every way an async iterable can yield the bytes c in chunks that are not
\* empty
RECURSIVE Chunkings(_)
Chunkings(c) ==
    IF c = <<>> THEN {<<>>}
    ELSE UNION {{<<SubSeq(c, 1, k)>> \o rest :
                    rest \in Chunkings(SubSeq(c, k + 1, Len(c)))} :
                k \in 1..Len(c)}

\* the defaults; quote '" with the separators ";" and ",\n"
WriterConfigs ==
    {[columnSeparator |-> <<>>, lineSeparator |-> <<>>, quote |-> <<>>],
     [columnSeparator |-> <<<<59>>>>, lineSeparator |-> <<<<44, 10>>>>,
      quote |-> <<<<39, 34>>>>]}

\* one call of writeCell: a string or a Uint8Array of up to MaxCellLen bytes
\* of a " ' , \n, with and without forceQuotes, or an async iterable that
\* yields such bytes in any chunks
CellCalls ==
    UNION {{CellCall(<<c>>, FALSE, f) : f \in BOOLEAN}
               \cup {CellCall(ch, TRUE, FALSE) : ch \in Chunkings(c)} :
           c \in SeqsUpTo({97, 34, 39, 44, 10}, MaxCellLen)}

\* the calls sequences of several calls are made of
FewCalls ==
    {CellCall(<<<<97>>>>, FALSE, FALSE), CellCall(<<<<>>>>, FALSE, FALSE),
     CellCall(<<<<44>>>>, FALSE, FALSE), CellCall(<<<<97>>, <<34>>>>, TRUE, FALSE),
     NextLineCall}

\* the rows writeCSV is given: up to two rows of up to two cells
FewRows ==
    SeqsUpTo(SeqsUpTo(FewCalls \ {NextLineCall}, 2), 2)

WriterCases ==
    {[options |-> o, calls |-> <<c>>, rows |-> <<>>, by |-> "calls"] :
        o \in WriterConfigs, c \in CellCalls}
    \cup {[options |-> o, calls |-> cs, rows |-> <<>>, by |-> "calls"] :
        o \in WriterConfigs, cs \in SeqsUpTo(FewCalls, MaxCalls)}
    \cup {[options |-> o, calls |-> writeCSV(rows, TRUE), rows |-> rows,
           by |-> "writeCSV"] :
        o \in WriterConfigs, rows \in FewRows}

InitWriter ==
    \E c \in WriterCases :
        /\ run = c
        /\ view = NewCSVWriter(c.options)
        /\ reader = [inputBuffer |-> <<>>, inputBufferEmpty |-> FALSE,
                     inputBufferIndex |-> 0, wrap |-> FALSE]
        /\ source = <<>>
        /\ inflight = <<>>
        /\ active = FALSE
        /\ got = <<>>
        /\ events = <<>>

NextWriter == writeCell \/ WriteLoopRound \/ nextLine

SpecWriter == InitWriter /\ [][NextWriter]_vars

\* the arrays written during the i-th call, which has returned
WritesOf(i) ==
    SubSeq(got, events[i].at + 1,
           IF i < Len(events) THEN events[i + 1].at ELSE Len(got))

Returned(i) == i < Len(events) \/ ~active

\* the i-th call wrote a column separator first
Separated(i) ==
    /\ WritesOf(i) /= <<>>
    /\ Head(WritesOf(i)) = view.columnSeparator
    /\ i > 1
    /\ events[i - 1].call.op = "cell"

\* what the i-th call wrote after the column separator, if it wrote one
CellWritten(i) ==
    Flatten(IF Separated(i) THEN Tail(WritesOf(i)) ELSE WritesOf(i))

\* the cell must be wrapped in quotes
MustWrap(call) ==
    \/ call.forceQuotes
    \/ call.iterable
    \/ \E pat \in {view.quote, view.columnSeparator, view.lineSeparator} :
           \E i \in 1..Len(Flatten(call.chunks)) :
               IsPrefixOf(pat, SubSeq(Flatten(call.chunks), i,
                                      Len(Flatten(call.chunks))))

(***************************************************************************)
(* C22  A call of writeCell that has returned wrote the cell wrapped in    *)
(* quotes exactly when forceQuotes was set, the cell was an async iterable *)
(* or its bytes contain the quote, the column separator or the line        *)
(* separator; a wrapped cell is the quote, the bytes of the cell in order  *)
(* with every occurrence of the quote written twice, and the quote; a cell *)
(* that is not wrapped is its bytes.  The chunks the bytes come in make no *)
(* difference.                                                             *)
(***************************************************************************)
C22_CellQuoting ==
    view.kind = "writer" =>
        \A i \in 1..Len(events) :
            (events[i].call.op = "cell" /\ Returned(i)) =>
                LET call == events[i].call
                    bytes == Flatten(call.chunks)
                IN  CellWritten(i) =
                        IF MustWrap(call) THEN Quoted(bytes, view.quote)
                        ELSE bytes

\* an async iterable has yielded the two-byte quote in two chunks, with a
\* byte before it, and the call has returned
C22_Witness ==
    /\ view.kind = "writer"
    /\ view.quote = <<39, 34>>
    /\ Len(events) = 1
    /\ events[1].call = CellCall(<<<<97, 39>>, <<34>>>>, TRUE, FALSE)
    /\ ~active
    /\ Flatten(got) = <<39, 34, 97, 39, 34, 39, 34, 39, 34>>

\* the byte strings joined by sep
RECURSIVE JoinBy(_, _)
JoinBy(units, sep) ==
    IF units = <<>> THEN <<>>
    ELSE IF Len(units) = 1 THEN units[1]
    ELSE Head(units) \o sep \o JoinBy(Tail(units), sep)

\* what a cell is written as
Rendered(call) ==
    IF MustWrap(call) THEN Quoted(Flatten(call.chunks), view.quote)
    ELSE Flatten(call.chunks)

RenderedRow(row) ==
    JoinBy([i \in 1..Len(row) |-> Rendered(row[i])], view.columnSeparator)

\* every call the client makes has returned
AllReturned == Len(events) = Len(run.calls) /\ ~active

(***************************************************************************)
(* C23  A call of writeCell writes the column separator, before anything   *)
(* else, exactly when it is not the first call of writeCell since the      *)
(* writer was constructed or nextLine was last called; a call of nextLine  *)
(* writes the line separator once and nothing else; and when writeCSV has  *)
(* returned, the bytes written are the rows joined by the line separator,  *)
(* with none after the last row, each row being its cells joined by the    *)
(* column separator.                                                       *)
(***************************************************************************)
C23_Separators ==
    view.kind = "writer" =>
        /\ \A i \in 1..Len(events) :
              /\ events[i].call.op = "cell" =>
                     ((i > 1 /\ events[i - 1].call.op = "cell")
                          <=> (/\ WritesOf(i) /= <<>>
                               /\ Head(WritesOf(i)) = view.columnSeparator))
              /\ (events[i].call.op = "nextLine") =>
                     WritesOf(i) = <<view.lineSeparator>>
        /\ (run.by = "writeCSV" /\ AllReturned) =>
               Flatten(got) =
                   JoinBy([k \in 1..Len(run.rows) |-> RenderedRow(run.rows[k])],
                          view.lineSeparator)

\* writeCSV has written two rows of two cells, the second cell of each
\* wrapped in quotes
C23_Witness ==
    /\ view.kind = "writer"
    /\ run.by = "writeCSV"
    /\ AllReturned
    /\ Len(run.rows) = 2
    /\ Flatten(got) = <<97, 44, 34, 44, 34, 10, 97, 44, 34, 44, 34>>

(***************************************************************************)
(* A consumer that does not await: next() is called again while the        *)
(* promise of an earlier call is outstanding, up to MaxShared times for    *)
(* one promise.                                                            *)
(***************************************************************************)
MaxShared == 1

MaxOverlapLen == 3

\* next() (2054-2083, 2165-2194) called while nextPromise is set: the
\* promise of the earlier call is returned
nextPending ==
    /\ ~active
    /\ view.pending
    /\ view.shared < MaxShared
    /\ Terminals(got) <= MaxExtraNext
    /\ IF view.done /\ view.buffer = <<>>
       THEN /\ got' = Append(got, DoneResult)
            /\ UNCHANGED view
       ELSE /\ view' = [view EXCEPT !.shared = @ + 1]
            /\ UNCHANGED got
    /\ UNCHANGED <<source, inflight, reader, active, events, run>>

\* every content up to MaxOverlapLen bytes, read in one chunk or byte by
\* byte through readCSVStream or readCSVRows
OverlapCases ==
    {[content |-> c,
      options |-> [DefaultOptions EXCEPT !._readerIteratorBufferSize = n],
      kind |-> k] :
        c \in SeqsUpTo({97, 44, 10, 34}, MaxOverlapLen),
        n \in {1, DefaultReaderIteratorBufferSize},
        k \in {"stream", "rows"}}

InitOverlap == \E c \in OverlapCases : Start(c)

NextOverlap ==
    \/ next
    \/ nextPending
    \/ Paused
    \/ ReadMoreData
    \/ ChunkArrives
    \/ Eof
    \/ LineSeparator
    \/ ColumnSeparator
    \/ StartColumn
    \/ DoubleQuote
    \/ EndQuotedColumn
    \/ EndUnquotedColumn
    \/ ReadColumn
    \/ Fail

SpecOverlap == InitOverlap /\ [][NextOverlap]_vars

MaxRequests == 2

\* reader.read() (1684-1689)
ClientRead ==
    /\ ~active
    /\ Len(inflight) < MaxRequests
    /\ Ends = 0
    /\ ~HasError(events)
    /\ reader' = read(reader).rd
    /\ active' = read(reader).started
    /\ UNCHANGED <<source, inflight, view, got, events, run>>

\* reader.pause() (1691-1693)
ClientPause ==
    /\ ~active
    /\ reader' = [reader EXCEPT !.paused = TRUE]
    /\ UNCHANGED <<source, inflight, active, view, got, events, run>>

NextClient ==
    \/ ClientRead
    \/ ClientPause
    \/ Paused
    \/ ReadMoreData
    \/ ChunkArrives
    \/ Eof
    \/ LineSeparator
    \/ ColumnSeparator
    \/ StartColumn
    \/ DoubleQuote
    \/ EndQuotedColumn
    \/ EndUnquotedColumn
    \/ ReadColumn
    \/ Fail

SpecClient == InitOverlap /\ [][NextClient]_vars

\* the calls of parseCycle that have not returned: the one that is running
\* and those that wait for a chunk
ParseLoops == Len(inflight) + (IF active THEN 1 ELSE 0)

(***************************************************************************)
(* C25  Whatever calls of read() and pause() the client makes, at most one *)
(* call of parseCycle has not returned and at most one request to the byte *)
(* source is outstanding.                                                  *)
(***************************************************************************)
C25_OneParseLoop == ParseLoops <= 1 /\ Len(inflight) <= 1

(***************************************************************************)
(* C26  While the reader is driven through readCSVStream or readCSVRows,   *)
(* whenever next() is called, at most one call of parseCycle has not       *)
(* returned; and when no promise is outstanding, so that next() may call   *)
(* read(), the reader is paused and no call of parseCycle is running or    *)
(* waiting for a chunk.                                                    *)
(***************************************************************************)
C26_ReadWhenPaused ==
    view.kind \in {"stream", "rows"} =>
        /\ ParseLoops <= 1
        /\ (~active /\ ~view.pending) => (reader.paused /\ inflight = <<>>)

\* next() has been called again while the promise of the earlier call is
\* outstanding and the reader waits for a chunk, after a first cell
C26_Witness ==
    /\ view.kind = "stream"
    /\ view.pending
    /\ view.shared = 1
    /\ inflight /= <<>>
    /\ got /= <<>>

\* the results an adapter makes of the reader's callbacks, in order: for
\* readCSVStream one for each callback, for readCSVRows one for each row
RECURSIVE Emissions(_, _, _)
Emissions(kind, ev, row) ==
    IF ev = <<>> THEN <<>>
    ELSE LET e == Head(ev)
         IN  IF e.type = "cell"
             THEN IF kind = "rows"
                  THEN Emissions(kind, Tail(ev), Append(row, e.value))
                  ELSE <<ValueResult(e.value)>> \o Emissions(kind, Tail(ev), row)
             ELSE IF e.type = "rowEnd"
             THEN <<IF kind = "rows" THEN ValueResult(row) ELSE NewLineResult>>
                      \o Emissions(kind, Tail(ev), <<>>)
             ELSE IF e.type = "end"
             THEN <<DoneResult>> \o Emissions(kind, Tail(ev), row)
             ELSE <<ErrorResult(e)>> \o Emissions(kind, Tail(ev), row)

(***************************************************************************)
(* C27  The next() calls made on readCSVStream or readCSVRows, also those  *)
(* made before an earlier call has settled, receive the emissions of the   *)
(* adapter one each and in order: up to the first done or error, what the  *)
(* calls have settled with is a prefix of the sequence of emissions.       *)
(***************************************************************************)
C27_OneEmissionPerCall ==
    view.kind \in {"stream", "rows"} =>
        IsPrefixOf(SubSeq(got, 1, IF Finished THEN FirstTerminal(got)
                                  ELSE Len(got)),
                   Emissions(view.kind, events, <<>>))


\* a next() call has not settled and no code of the reader is running
Waiting == ~active /\ view.pending

(***************************************************************************)
(* C28  No lost wake-up: whenever a next() call has not settled and no     *)
(* code of the reader is running, the reader is not paused and a call of   *)
(* parseCycle waits for a chunk of the byte source; and every next() call  *)
(* that has not settled does settle, the answers of the byte source and    *)
(* the passes of parseCycle being run whenever they are due.               *)
(***************************************************************************)
C28_NoLostWakeUp ==
    /\ [](Waiting => (~reader.paused /\ inflight /= <<>>))
    /\ (view.pending ~> ~view.pending)

(***************************************************************************)
(* The tests hasNext(pattern) that the pass of parseCycle taken in state r *)
(* makes (1836-1931), each with the number of unprocessed bytes it is made *)
(* on: the conditions of the loop in their order, && and || evaluated      *)
(* from the left.                                                          *)
(***************************************************************************)
Test(pat, r) == [pat |-> pat, have |-> r.inputBufferUnprocessed]

AfterQuoteTests(r) ==
    LET closed == skip([r EXCEPT !.inQuote = FALSE, !.inColumn = FALSE],
                       Len(r.quote))
    IN  IF closed.inputBufferUnprocessed = 0 THEN {}
        ELSE {Test(closed.lineSeparator, closed)}
                 \cup (IF hasNext(closed, closed.lineSeparator) THEN {}
                       ELSE {Test(closed.columnSeparator, closed)})

PrefixTests(r) ==
    IF Branch(r) \in {"paused", "readMoreData", "shrinkInputBuffer",
                      "expandColumnBuffer", "skipLine", "toLine"}
    THEN {}
    ELSE IF ~r.inColumn
    THEN (IF r.currentPos = 0 THEN {Test(utfBom, r)} ELSE {})
             \cup (IF Branch(r) \in {"skipBom", "eof"} THEN {}
                   ELSE {Test(r.lineSeparator, r)}
                            \cup (IF hasNext(r, r.lineSeparator) THEN {}
                                  ELSE {Test(r.columnSeparator, r)}))
    ELSE IF r.inQuote
    THEN {Test(r.doubleQuote, r)}
             \cup (IF hasNext(r, r.doubleQuote) THEN {}
                   ELSE {Test(r.quote, r)}
                            \cup (IF hasNext(r, r.quote)
                                  THEN AfterQuoteTests(r) ELSE {}))
    ELSE IF r.inputBufferUnprocessed = 0 THEN {}
    ELSE {Test(r.lineSeparator, r)}
             \cup (IF hasNext(r, r.lineSeparator) THEN {}
                   ELSE {Test(r.columnSeparator, r)})

(***************************************************************************)
(* C29  Every test of whether the unprocessed input starts with a pattern  *)
(* is made on at least as many unprocessed bytes as the pattern is long,   *)
(* or after the byte source has answered done.                             *)
(***************************************************************************)
C29_LookAhead ==
    active =>
        \A t \in PrefixTests(reader) :
            t.have >= Len(t.pat) \/ reader.readerEmpty

(***************************************************************************)
(* Skipping to fromLine with the line separator "\r\n": every content up   *)
(* to MaxSkipLen bytes of a, \r and \n, fromLine from 1 to MaxLine, read   *)
(* in chunks of 1 to MaxHidden bytes or in one chunk.                      *)
(***************************************************************************)
MaxSkipLen == 5

SkipCases ==
    {[content |-> c,
      options |-> [CrLfOptions EXCEPT !.fromLine = <<f>>,
                                      !._readerIteratorBufferSize = k],
      kind |-> "rows"] :
        c \in SeqsUpTo({97, 13, 10}, MaxSkipLen),
        f \in 1..MaxLine,
        k \in {DefaultReaderIteratorBufferSize} \cup 1..MaxHidden}

InitSkip == \E c \in SkipCases : Start(c)

NextSkip ==
    \/ next
    \/ Paused
    \/ ReadMoreData
    \/ ChunkArrives
    \/ SkipLine
    \/ Eof
    \/ LineSeparator
    \/ StartColumn
    \/ EndUnquotedColumn
    \/ ReadColumn

SpecSkip == InitSkip /\ [][NextSkip]_vars

(***************************************************************************)
(* C30  While the reader skips to fromLine, the lines it has counted are   *)
(* the line separators in the bytes it has skipped, whatever the chunks    *)
(* the bytes come in.                                                      *)
(***************************************************************************)
C30_SkipCountsLines ==
    reader.linesProcessed < reader.fromLine =>
        reader.linesProcessed =
            LineSeparatorsBefore(source.buf, reader.currentPos,
                                 reader.lineSeparator, 0, 0, 0).n

(***************************************************************************)
(* Small column buffers with the input in one chunk, so that the bulk read *)
(* of a column body is bounded by the free bytes of the column buffer:     *)
(* every content up to MaxColumnLen bytes of a, the quote and the column   *)
(* separator, _columnBufferMinStepSize and _columnBufferReserve 1 or 3     *)
(* (the constructor raises both to minPossibleBufferReserve = 2).          *)
(***************************************************************************)
MaxColumnLen == 5

ColumnSizes == {1, 3}

ColumnCases ==
    {[content |-> c,
      options |-> [DefaultOptions EXCEPT !._columnBufferMinStepSize = s,
                                         !._columnBufferReserve = v],
      kind |-> "stream"] :
        c \in SeqsUpTo({97, 34, 44}, MaxColumnLen),
        s \in ColumnSizes, v \in ColumnSizes}

InitColumn == \E c \in ColumnCases : Start(c)

NextColumn ==
    \/ next
    \/ Paused
    \/ ReadMoreData
    \/ ChunkArrives
    \/ ExpandColumnBuffer
    \/ Eof
    \/ ColumnSeparator
    \/ StartColumn
    \/ DoubleQuote
    \/ EndQuotedColumn
    \/ EndUnquotedColumn
    \/ ReadColumn
    \/ Fail

SpecColumn == InitColumn /\ [][NextColumn]_vars

(***************************************************************************)
(* C31  The column write index never exceeds the length of the column      *)
(* buffer, and the bytes written are as many as the index says: no append  *)
(* of a byte, of a bulk read or of the quote of a doubled quote goes       *)
(* beyond the end of the buffer.                                           *)
(***************************************************************************)
C31_ColumnIndexInBuffer ==
    /\ reader.columnBufferIndex <= reader.columnBufferLength
    /\ reader.columnBufferIndex = Len(reader.columnBuffer)

\* a bulk read of three bytes has filled the column buffer to its last byte
C31_Witness ==
    /\ reader.inColumn
    /\ reader.columnBufferIndex = reader.columnBufferLength
    /\ reader.columnBufferIndex = 3

\* the step calls onCell
CellEmitted == \E i \in 1..Len(NewEvents) : NewEvents[i].type = "cell"

(***************************************************************************)
(* C32  The length of the column buffer does not decrease in a step that   *)
(* emits no cell, and after a step that emits a cell the column buffer has *)
(* columnBufferStepSize bytes again.                                       *)
(***************************************************************************)
C32_ColumnBufferReleased ==
    [][IF CellEmitted
       THEN reader'.columnBufferLength = reader.columnBufferStepSize
       ELSE reader'.columnBufferLength >= reader.columnBufferLength]_vars

Consumed(r) ==
    /\ r.linesProcessed >= r.fromLine
    /\ r.inQuote \/ r.currentPos > r.lastLineStartPos

NoDelimiterPrefix(r) ==
    LET d == <<r.quote, r.columnSeparator, r.lineSeparator>>
    IN  \A i, j \in 1..3 : i /= j => ~IsPrefixOf(d[i], d[j])

(***************************************************************************)
(* C35  When no delimiter is a prefix of another, the loop never reaches   *)
(* its catch-all: in no state is the last rule the one to be taken, and no *)
(* "unexpected" error is ever raised.                                      *)
(***************************************************************************)
C35_NoUnexpected ==
    NoDelimiterPrefix(reader) =>
        /\ Branch(reader) /= "unexpected"
        /\ \A i \in 1..Len(events) : events[i].type /= Unexpected

\* the rule before the catch-all has been taken: the input ended inside a
\* quoted column and the error for it was raised
C35_Witness ==
    /\ NoDelimiterPrefix(reader)
    /\ reader.inColumn /\ reader.inQuote
    /\ reader.inputBufferUnprocessed = 0 /\ reader.readerEmpty
    /\ events /= <<>> /\ Last(events).type = ExpectedQuote

(***************************************************************************)
(* C36  The input buffer is compacted only when inputBufferIndex has       *)
(* reached inputBufferIndexLimit, and the step that compacts it drops the  *)
(* consumed prefix of the buffer, sets inputBufferIndex to 0 and adds one  *)
(* to inputBufferShrinks; every other field of the reader (the count of    *)
(* unprocessed bytes, currentPos, linesProcessed, lastLineStartPos, the    *)
(* flags, the column buffer) keeps its value, and nothing is called back   *)
(* or requested from the byte source.                                      *)
(***************************************************************************)
C36_ShrinkFrame ==
    [][reader'.stats.inputBufferShrinks /= reader.stats.inputBufferShrinks =>
          /\ reader.inputBufferIndex >= reader.inputBufferIndexLimit
          /\ reader' =
                 [reader EXCEPT
                      !.stats.inputBufferShrinks = @ + 1,
                      !.inputBufferIndex = 0,
                      !.inputBuffer =
                          SubArray(reader.inputBuffer, reader.inputBufferIndex)]
          /\ SubArray(reader'.inputBuffer, reader'.inputBufferIndex)
                 = SubArray(reader.inputBuffer, reader.inputBufferIndex)
          /\ UNCHANGED <<source, inflight, view, got, events>>]_vars

\* the buffer has just been compacted inside a cell, with bytes of the cell
\* in the column buffer and bytes of the input still unprocessed
C36_Witness ==
    /\ reader.stats.inputBufferShrinks > 0
    /\ reader.inputBufferIndex = 0
    /\ reader.inputBufferUnprocessed > 0
    /\ reader.inColumn
    /\ reader.columnBufferIndex > 0
    /\ reader.inputBufferIndexLimit > 1

\* the chunks the byte source delivers for its content before it answers done
NumChunks(s) == (Len(s.buf) + s.bufSize - 1) \div s.bufSize

(***************************************************************************)
(* C37  Once the byte source has answered done, stats.reads is the number  *)
(* of chunks of the input plus one and no request is outstanding; from     *)
(* then on readerEmpty stays true and no further request is made.          *)
(***************************************************************************)
C37_ReadsCountChunks ==
    /\ [](reader.readerEmpty =>
              /\ reader.stats.reads = NumChunks(source) + 1
              /\ inflight = <<>>
              /\ SourceUnread(source) = 0)
    /\ [][reader.readerEmpty =>
              /\ reader'.readerEmpty
              /\ reader'.stats.reads = reader.stats.reads
              /\ inflight' = inflight]_vars

\* an input of three chunks has been consumed to its end and next() has
\* answered done
C37_Witness ==
    /\ reader.readerEmpty
    /\ NumChunks(source) = 3
    /\ reader.stats.reads = 4
    /\ got /= <<>> /\ Last(got).tag = "done"

(***************************************************************************)
(* findReadTillIndex as a function of its arguments: arrays of up to       *)
(* MaxFindLen bytes 1, 2, 3, every limit from -1 to one past the longest   *)
(* array, and one- and two-byte patterns, among them a line separator that *)
(* begins with the column separator and a quote equal to it.               *)
(***************************************************************************)
MaxFindLen == 4

FindCases ==
    [a : SeqsUpTo({1, 2, 3}, MaxFindLen),
     limit : -1..(MaxFindLen + 1),
     lineSeparator : {<<1>>, <<1, 2>>, <<2, 1>>},
     columnSeparator : {<<2>>, <<2, 2>>},
     quote : {<<3>>, <<3, 1>>, <<2>>}]

InitFind ==
    \E c \in FindCases :
        /\ run = c
        /\ got = <<>>
        /\ reader = <<>>
        /\ view = <<>>
        /\ source = <<>>
        /\ inflight = <<>>
        /\ active = FALSE
        /\ events = <<>>

FindReadTill ==
    /\ got = <<>>
    /\ got' = <<findReadTillIndex(run.a, run.limit, run.lineSeparator,
                                  run.columnSeparator, run.quote)>>
    /\ UNCHANGED <<source, inflight, reader, active, view, events, run>>

NextFind == FindReadTill

SpecFind == InitFind /\ [][NextFind]_vars

\* the bytes of pat are in a from the 0-based index i on
FullMatch(a, i, pat) ==
    /\ i >= 0
    /\ i + Len(pat) <= Len(a)
    /\ SubSeq(a, i + 1, i + Len(pat)) = pat

PatternOf(c, type) ==
    CASE type = "LINE_SEPARATOR" -> c.lineSeparator
      [] type = "COLUMN_SEPARATOR" -> c.columnSeparator
      [] type = "QUOTE" -> c.quote

FullMatches(c) ==
    {i \in 0..(Len(c.a) - 1) :
        /\ i < c.limit
        /\ \E t \in {"LINE_SEPARATOR", "COLUMN_SEPARATOR", "QUOTE"} :
               FullMatch(c.a, i, PatternOf(c, t))}

(***************************************************************************)
(* C38  findReadTillIndex returns the smallest index below limit at which  *)
(* the line separator, the column separator or the quote is wholly in the  *)
(* array, with the type of a pattern that is there; when there is no such  *)
(* index it returns limit with the type LIMIT.  The index returned is      *)
(* never greater than limit.                                               *)
(***************************************************************************)
C38_FirstFullMatch ==
    got /= <<>> =>
        LET res == got[1]
        IN  /\ res.till <= run.limit
            /\ IF FullMatches(run) = {}
               THEN res = [till |-> run.limit, type |-> "LIMIT"]
               ELSE /\ res.till \in FullMatches(run)
                    /\ \A i \in FullMatches(run) : res.till <= i
                    /\ res.type /= "LIMIT"
                    /\ FullMatch(run.a, res.till, PatternOf(run, res.type))

\* the line separator was found at an index below limit where the column
\* separator matches with its first byte only; the separator ends past limit
C38_Witness ==
    /\ got /= <<>>
    /\ got[1] = [till |-> 1, type |-> "LINE_SEPARATOR"]
    /\ run.a = <<1, 2, 1, 2>>
    /\ run.limit = 2
    /\ run.lineSeparator = <<2, 1>>
    /\ run.columnSeparator = <<2, 2>>
    /\ run.quote = <<3>>
=============================================================================
